---- MODULE Spec2Model ----
(***************************************************************************)
(* Verification model of the cs-analytics pipeline:                        *)
(*   - the classification engine and its retry ledger (analyzeMessages.ts) *)
(*   - the sync engine's upserts and the paginated fetch client            *)
(*     (fetchData.ts)                                                      *)
(* Time is counted in hours.  Text is a sequence of one-character strings. *)
(***************************************************************************)
EXTENDS Integers, Sequences, FiniteSets, TLC

VARIABLES
  \* ---- persisted store (classification side)
  Message,            \* table "Message": set of rows
  MessageAnalysis,    \* table "MessageAnalysis": set of rows
  AnalysisFailures,   \* table "AnalysisFailures": set of rows
  viewFiltersShort,   \* TRUE once cleanupShortMessages.sql replaced the views
  \* ---- one classification run (runAnalysis)
  pc,                 \* position of the run: "idle", "retry", "first"
  retryQueue,         \* convMap of retryFailedMessages still to process
  firstQueue,         \* conversationMap of runAnalysis still to process
  processed,          \* runAnalysis: processed
  now,                \* wall clock, in hours
  runs,               \* number of runs started so far
  handInserts,        \* number of ledger rows inserted by hand so far
  lastCall,           \* the classifier call made by the last step, if any
  \* ---- persisted store (sync side) and the upserts applied to it
  User,               \* table "User": set of rows
  Conversation,       \* table "Conversation": set of rows
  clock,              \* Date.now() of the sync process
  lastUpsert,         \* the upsert applied by the last upsert step
  nUpserts,           \* number of upserts applied so far
  \* ---- one call of paginate
  server,             \* the remote server: what it answers to each page request
  pageSize,           \* const pageSize
  pgPc,               \* "idle", "loop", "done" (returned items) or "threw"
  page,               \* let page
  items,              \* const items
  seenFirstIds,       \* const seenFirstIds
  safety,             \* let safety
  fetches,            \* number of fetchWithRetry calls issued by the call
  \* ---- one call of fetchWithRetry
  fwFlow,             \* the ingestion flow whose fetchWithRetry runs
  fwPc,               \* "idle", "get" (request in flight), "sleep", "returned" or "threw"
  attempt,            \* attempt number of the request
  waits,              \* the backoffs slept so far, in ms
  fwResult,           \* what the call returned or threw
  \* ---- one run of the sync engine (fetchAndStore, main)
  syPc,               \* fetchAndStore: "idle", "users", "convs" or "exited"
  window,             \* [start, end]: windowStart and now of the run
  userQueue,          \* users still to process (the first is the current one)
  ucQueue,            \* conversations of the current user still to process
  summary,            \* the counters of the run summary
  exitStatus,         \* process exit status, NoNumber while running
  progress,           \* users and conversations listed, visited and failed in the run
  lastConv,           \* what the last step did with a conversation
  \* ---- one run of the reconciliation (refetchUnresolvedConversations)
  rcPc,               \* refetchUnresolvedConversations: "idle", "loop", "returned" or "exited"
  rcQueue,            \* unresolvedConvos still to check
  rcSummary,          \* checked, resolved, updated, errors
  lastRefetch,        \* what the last step did with a stored conversation
  \* ---- backfillVars
  bfPc,               \* position of the backfill script
  bfQueue,            \* conversations still to backfill
  bfRemote,           \* the messages the remote holds for each conversation
  bfRun,              \* number of backfill runs started
  bfStats,            \* statistics of the current backfill run
  lastBackfill,       \* what the last backfilled conversation did
  bfDone,             \* conversations whose last backfill met no failure
  bfBatchSize,        \* BATCH_SIZE the backfill script was started with
  bfConversations,    \* the conversations the run selected, oldest first
  bfI,                \* the index i of the loop over the batches
  bfBatches,          \* number of iterations of that loop so far
  \* ---- configVars
  maxConversations,   \* the limit MAX_CONVERSATIONS_TO_PROCESS the process was started with
  \* ---- historyVars
  runLog,             \* the classifier calls of the current run: their number and the messages cut off by the cap
  \* ---- overlapVars
  recorders,          \* per overlapping run, the position of its catch block in the ledger loop
  \* ---- raceVars
  remoteConvo,        \* the status and update time the remote platform holds for conversation c1
  inFlight,           \* per writer (sync, reconciliation), what it read and has not yet written
  \* ---- limiterVars
  rlCapacity,         \* RateLimiter.maxTokens
  rlTokens,           \* RateLimiter.tokens
  rlLastRefill,       \* RateLimiter.lastRefill
  rlNow,              \* Date.now() of the limiter, in refill periods of one token
  rlWake,             \* when the timer of a suspended waitForToken is due, NoNumber when none
  rlGrants            \* per instant, how many waitForToken calls returned at it

analysisVars == <<Message, MessageAnalysis, AnalysisFailures, viewFiltersShort,
                  pc, retryQueue, firstQueue, processed, now, runs,
                  handInserts, lastCall>>

syncVars == <<User, Conversation, clock, lastUpsert, nUpserts>>

pageVars == <<server, pageSize, pgPc, page, items, seenFirstIds, safety, fetches>>

fetchVars == <<fwFlow, fwPc, attempt, waits, fwResult>>

runVars == <<syPc, window, userQueue, ucQueue, summary, exitStatus, progress, lastConv>>

reconVars == <<rcPc, rcQueue, rcSummary, lastRefetch>>

backfillVars == <<bfPc, bfQueue, bfRemote, bfRun, bfStats, lastBackfill, bfDone,
                  bfBatchSize, bfConversations, bfI, bfBatches>>

configVars == <<maxConversations>>

historyVars == <<runLog>>

overlapVars == <<recorders>>

raceVars == <<remoteConvo, inFlight>>

limiterVars == <<rlCapacity, rlTokens, rlLastRefill, rlNow, rlWake, rlGrants>>

vars == <<analysisVars, syncVars, pageVars, fetchVars, runVars, reconVars, backfillVars, configVars, historyVars, overlapVars, raceVars, limiterVars>>

\* JS undefined / null, SQL NULL, for a string and for a number
None == "none"
NoNumber == -1

-----------------------------------------------------------------------------
\* Bounds of the model
MaxRuns == 3
MaxTime == 1
MaxHandInserts == 1
MaxClock == 1
MaxUpserts == 2
MaxScript == 2
MaxBackfillRuns == 2
MaxVariedBatch == 2
MaxTicks == 2
MaxLaterCalls == 3
MaxBatches == 3

\* Program constants
MAX_MESSAGES_PER_BATCH == 20
MAX_CONVERSATIONS_TO_PROCESS == 100
RETRY_PULL_LIMIT == 50
FETCH_LIMIT == 1000
RETRY_CUTOFF == 3
RETRY_DELAY_HOURS == 1
SAFETY_CEILING == 200
DEFAULT_PAGE_SIZE == 10
THROTTLED == 429
MAX_ATTEMPTS == 4
BACKFILL_RETRIES == 3
BACKOFF_BASE_MS == 1000
LOOKBACK_HOURS == 2
MAX_AGE_DAYS == 30
HOURS_PER_DAY == 24
MAX_RETRIES == 3
DEFAULT_RPM == 500
DEFAULT_BATCH_SIZE == 50

-----------------------------------------------------------------------------
\* Generic helpers

Range(s) == {s[i] : i \in DOMAIN s}

Min(a, b) == IF a <= b THEN a ELSE b

\* a faulty variant: the whole list, whatever the cap
TakeAll(s, n) == s

\* Array.prototype.slice(0, n) / SQL LIMIT n
Take(s, n) == SubSeq(s, 1, Min(n, Len(s)))

RECURSIVE Dedup(_, _)
\* the distinct elements of s in order of first appearance (Map insertion order)
Dedup(s, seen) ==
  IF s = <<>> THEN <<>>
  ELSE IF Head(s) \in seen THEN Dedup(Tail(s), seen)
  ELSE <<Head(s)>> \o Dedup(Tail(s), seen \cup {Head(s)})

-----------------------------------------------------------------------------
\* Text: whitespace, trimming, word and character counts

\* characters matched by the regular expression class \s
IsSpace(c) == c \in {" ", "\n", "\t"}

\* String.prototype.trim(): strips every leading and trailing whitespace
JsTrim(s) ==
  LET keep == {i \in 1..Len(s) : ~IsSpace(s[i])}
  IN IF keep = {} THEN <<>>
     ELSE SubSeq(s, CHOOSE i \in keep : \A j \in keep : i <= j,
                    CHOOSE i \in keep : \A j \in keep : i >= j)

\* SQL TRIM(x): strips leading and trailing spaces only
SqlTrim(s) ==
  LET keep == {i \in 1..Len(s) : s[i] # " "}
  IN IF keep = {} THEN <<>>
     ELSE SubSeq(s, CHOOSE i \in keep : \A j \in keep : i <= j,
                    CHOOSE i \in keep : \A j \in keep : i >= j)

\* text.split(/\s+/).filter(w => w.length > 0).length
JsWordCount(s) ==
  Cardinality({i \in 1..Len(s) : ~IsSpace(s[i]) /\ (i = 1 \/ IsSpace(s[i-1]))})

\* array_length(regexp_split_to_array(x, E'\\s+'), 1): pieces, empty ones included
SqlSplitLength(s) ==
  Cardinality({i \in 1..Len(s) : IsSpace(s[i]) /\ (i = 1 \/ ~IsSpace(s[i-1]))}) + 1

\* the short-message filter of fetchMessagesForAnalysis
IsShortMessage(parts) ==
  LET text == JsTrim(parts)
      wordCount == JsWordCount(text)
      charCount == Len(text)
  IN wordCount <= 2 \/ charCount <= 10

\* the short-message filter of the views of cleanupShortMessages.sql
SqlNotShort(parts) ==
  /\ SqlSplitLength(SqlTrim(parts)) > 2
  /\ Len(SqlTrim(parts)) > 10

-----------------------------------------------------------------------------
\* The messages of the store

TextBike    == <<"m","y"," ","b","i","k","e"," ","i","s"," ","s","t","u","c","k">>
TextBattery == <<"b","a","t","t","e","r","y"," ","n","o","t"," ","o","k","a","y">>
TextOk      == <<"O","k">>

\* stored when the first run starts
InitialMessages ==
  { [id |-> "m1", conversationid |-> "c1", actor_type |-> "user",
     message_parts |-> TextBike, created_time |-> 1],
    [id |-> "m3", conversationid |-> "c2", actor_type |-> "user",
     message_parts |-> TextOk, created_time |-> 3] }

\* stored by a later sync run
ArrivingMessages ==
  { [id |-> "m2", conversationid |-> "c1", actor_type |-> "user",
     message_parts |-> TextBattery, created_time |-> 2] }

-----------------------------------------------------------------------------
\* The external classification capability (analyzeMessagesWithRetry)

\* what the classifier may answer for one message (confidence in tenths)
ClassifierResults ==
  { [language |-> "en", category |-> "bike_not_moving", tag |-> "escalated",
     confidence |-> 9],
    [language |-> None, category |-> "others", tag |-> None, confidence |-> NoNumber],
    [language |-> "hi", category |-> "payment", tag |-> "bot", confidence |-> 9],
    [language |-> "en", category |-> "kyc", tag |-> "cs", confidence |-> 15] }

\* the errors analyzeMessagesWithRetry throws in this model: a client error,
\* which it rethrows at once
ClassifierErrors ==
  { [status |-> 400, name |-> "Error"] }

InvalidFormatError == [status |-> NoNumber, name |-> "Error"]
TypeError          == [status |-> NoNumber, name |-> "TypeError"]
InsertError        == [status |-> NoNumber, name |-> "PostgrestError"]

\* the answer given to every message of a list longer than MaxVariedBatch
UniformResult ==
  [language |-> "en", category |-> "bike_not_moving", tag |-> "escalated", confidence |-> 9]

\* the outcomes of one call with n messages: an error thrown, or a parsed
\* response whose "messages" is absent or a list of n-1, n or n+1 results
\* (for more than MaxVariedBatch messages: a list of n results with one answer
\* for all); the store may in turn reject the rows (insertError)
ClassifierOutcomes(n) ==
  {[kind |-> "throw", err |-> e, messages |-> <<>>, insertError |-> FALSE] :
      e \in ClassifierErrors}
  \cup {[kind |-> "invalid", err |-> InvalidFormatError, messages |-> <<>>,
         insertError |-> FALSE]}
  \cup {[kind |-> "response", err |-> InsertError, messages |-> ms, insertError |-> ie] :
          ms \in UNION {IF n <= MaxVariedBatch THEN [1..k -> ClassifierResults]
                        ELSE {[i \in 1..k |-> UniformResult]} :
                          k \in {j \in IF n <= MaxVariedBatch THEN {n - 1, n, n + 1}
                                        ELSE {n} : j >= 0}},
          ie \in BOOLEAN}

\* JS  a || b, for a string and for a number
OrElse(a, b) == IF a \in {None, ""} THEN b ELSE a
OrElseNumber(a, b) == IF a \in {NoNumber, 0} THEN b ELSE a

-----------------------------------------------------------------------------
\* analyzeConversation

\* errorType of the catch block
ErrorType(err) ==
  IF err.status = 429 THEN "rate_limit"
  ELSE IF err.status \notin {NoNumber, 0} /\ err.status >= 500 THEN "api_error"
  ELSE IF err.name = "SyntaxError" THEN "parse_error"
  ELSE "unknown_error"

\* the rows built from response.messages
Analyses(messagesToAnalyze, results) ==
  { [message_id |-> messagesToAnalyze[i].id,
     language   |-> OrElse(results[i].language, "unknown"),
     category   |-> OrElse(results[i].category, "others"),
     tag        |-> OrElse(results[i].tag, "cs"),
     confidence |-> OrElseNumber(results[i].confidence, 5)] : i \in DOMAIN results }

\* confidence FLOAT CHECK (confidence >= 0 AND confidence <= 1), in tenths
ConfidenceCheck(row) == row.confidence >= 0 /\ row.confidence <= 10

\* whether the store rejects the rows for the CHECK of the table
CheckRejects(messagesToAnalyze, outcome) ==
  /\ outcome.kind = "response"
  /\ Len(outcome.messages) <= Len(messagesToAnalyze)
  /\ \E a \in Analyses(messagesToAnalyze, outcome.messages) : ~ConfidenceCheck(a)

\* whether the try block of analyzeConversation throws under an outcome
Throws(messagesToAnalyze, outcome) ==
  \/ outcome.kind = "throw"
  \/ outcome.kind = "invalid"
  \/ Len(outcome.messages) > Len(messagesToAnalyze)
  \/ outcome.insertError
  \/ CheckRejects(messagesToAnalyze, outcome)

\* the error it throws
ThrownBy(messagesToAnalyze, outcome) ==
  IF outcome.kind = "throw" THEN outcome.err
  ELSE IF outcome.kind = "invalid" THEN InvalidFormatError
  ELSE IF Len(outcome.messages) > Len(messagesToAnalyze) THEN TypeError
  ELSE InsertError

\* what made it throw: the classifier call, a response without "messages"
\* list, more results than messages, the store failing, or the store rejecting
\* the rows for the CHECK on confidence
Cause(messagesToAnalyze, outcome) ==
  IF ~Throws(messagesToAnalyze, outcome) THEN "none"
  ELSE IF outcome.kind \in {"throw", "invalid"} THEN outcome.kind
  ELSE IF Len(outcome.messages) > Len(messagesToAnalyze) THEN "results"
  ELSE IF outcome.insertError THEN "insert"
  ELSE "check"

\* a faulty variant: a plain insert in place of the upsert
InsertAnalyses(table, analyses) == table \cup analyses

\* supabase.from('MessageAnalysis').upsert(analyses, { onConflict: 'message_id' })
UpsertAnalyses(table, analyses) ==
  {r \in table : \A a \in analyses : a.message_id # r.message_id} \cup analyses

\* a faulty variant: the update of an existing row forgets to reschedule the retry
RecordFailureKeepsRetry(table, conversationId, msg, errorType, t) ==
  LET found == {r \in table : r.message_id = msg.id}
  IN IF Cardinality(found) = 1
     THEN (table \ found) \cup
          {[r EXCEPT !.attempts = r.attempts + 1, !.last_attempt = t,
                     !.error_type = errorType] : r \in found}
     ELSE table \cup
          {[message_id |-> msg.id, conversation_id |-> conversationId,
            error_type |-> errorType, attempts |-> 1, last_attempt |-> t,
            next_retry |-> t + RETRY_DELAY_HOURS]}

\* the select / update / insert on AnalysisFailures for one message
RecordFailure(table, conversationId, msg, errorType, t) ==
  LET found == {r \in table : r.message_id = msg.id}
      \* .single(): data only when exactly one row matches
      hasExisting == Cardinality(found) = 1
      existing == CHOOSE r \in found : TRUE
  IN IF hasExisting
     THEN (table \ found) \cup
          {[r EXCEPT !.attempts = existing.attempts + 1,
                     !.last_attempt = t,
                     !.next_retry = t + RETRY_DELAY_HOURS,
                     !.error_type = errorType] : r \in found}
     ELSE table \cup
          {[message_id |-> msg.id, conversation_id |-> conversationId,
            error_type |-> errorType, attempts |-> 1, last_attempt |-> t,
            next_retry |-> t + RETRY_DELAY_HOURS]}

\* a faulty variant: only the first message of the batch is recorded
RecordFirstFailure(table, conversationId, messages, errorType, t) ==
  IF messages = <<>> THEN table
  ELSE RecordFailure(table, conversationId, Head(messages), errorType, t)

RECURSIVE RecordSentFailures(_, _, _, _, _)
\* a faulty variant: only the messages within the cap of a call are recorded
RecordSentFailures(table, conversationId, messages, errorType, t) ==
  IF messages = <<>> THEN table
  ELSE LET sent == Take(messages, MAX_MESSAGES_PER_BATCH)
       IN  RecordSentFailures(RecordFailure(table, conversationId, sent[Len(sent)],
                                            errorType, t),
                              conversationId, SubSeq(sent, 1, Len(sent) - 1), errorType, t)

RECURSIVE RecordFailures(_, _, _, _, _)
\* for (const msg of messages) { ... } of the catch block
RecordFailures(table, conversationId, messages, errorType, t) ==
  IF messages = <<>> THEN table
  ELSE RecordFailures(RecordFailure(table, conversationId, Head(messages), errorType, t),
                      conversationId, Tail(messages), errorType, t)

\* analyzeConversation(conversationId, messages) under one classifier outcome:
\* the next MessageAnalysis and AnalysisFailures tables and the call's record
AnalyzeConversation(pass, conversationId, messages, outcome) ==
  LET messagesToAnalyze == Take(messages, MAX_MESSAGES_PER_BATCH)
      thrown == Throws(messagesToAnalyze, outcome)
  IN /\ MessageAnalysis' =
          IF ~thrown
          THEN UpsertAnalyses(MessageAnalysis, Analyses(messagesToAnalyze, outcome.messages))
          ELSE MessageAnalysis
     /\ AnalysisFailures' =
          IF ~thrown THEN AnalysisFailures
          ELSE RecordFailures(AnalysisFailures, conversationId, messages,
                              ErrorType(ThrownBy(messagesToAnalyze, outcome)), now)
     /\ lastCall' = [pass |-> pass, conv |-> conversationId,
                     sent |-> [i \in DOMAIN messagesToAnalyze |-> messagesToAnalyze[i].id],
                     batch |-> [i \in DOMAIN messages |-> messages[i].id],
                     failed |-> thrown,
                     cause |-> Cause(messagesToAnalyze, outcome),
                     error |-> ThrownBy(messagesToAnalyze, outcome),
                     hadAnalysis |-> {m.id : m \in {x \in Range(messagesToAnalyze) :
                                        \E r \in MessageAnalysis : r.message_id = x.id}},
                     hadFailure |-> {m.id : m \in {x \in Range(messages) :
                                       \E r \in AnalysisFailures : r.message_id = x.id}}]
     /\ runLog' = [calls |-> runLog.calls + 1,
                    cutOff |-> runLog.cutOff \cup
                      {messages[i].id : i \in (MAX_MESSAGES_PER_BATCH + 1)..Len(messages)}]

\* lastCall records, for the step just taken, the classifier call it made: the
\* pass, the ids sent, the ids of the whole batch, whether the call failed,
\* what made it fail and the error caught (meaningful when it failed), and
\* which of them had an analysis row or a ledger row before the call
NoCall == [pass |-> "none", conv |-> None, sent |-> <<>>, batch |-> <<>>,
           failed |-> FALSE, cause |-> "none", error |-> InsertError,
           hadAnalysis |-> {}, hadFailure |-> {}]

\* runLog before the first call of a run and between two runs
NoRunLog == [calls |-> 0, cutOff |-> {}]

\* the two scripts that write the Conversation table
Writers == {"sync", "reconciliation"}

\* the remote conversation as an earlier sync run saw it
FirstRemote == [status |-> "new", updated |-> 0]

\* a writer that holds nothing
NoFlight == [stage |-> "idle", dbConvo |-> <<>>, detail |-> <<>>, start |-> 0, end |-> 0]

\* the analysis runs that may overlap (two invocations of the script)
Processes == {"run1", "run2"}

\* a run that is not in the catch block of analyzeConversation
IdleRecorder ==
  [pc |-> "start", retryQueue |-> <<>>, firstQueue |-> <<>>,
   phase |-> "idle", conv |-> None, queue |-> <<>>, errorType |-> None,
   nextRetry |-> NoNumber, existing |-> NoNumber]

-----------------------------------------------------------------------------
\* The derived read view and the selection queries

RECURSIVE OrderByNextRetry(_)
\* ORDER BY af.next_retry ASC
OrderByNextRetry(S) ==
  IF S = {} THEN <<>>
  ELSE LET x == CHOOSE r \in S : \A q \in S : r.next_retry <= q.next_retry
       IN <<x>> \o OrderByNextRetry(S \ {x})

\* view "FailedMessagesForRetry": the schema's definition, to which
\* cleanupShortMessages.sql adds the short-message filter
FailedMessagesForRetry ==
  OrderByNextRetry(
    { af \in AnalysisFailures :
        /\ \E m \in Message :
             /\ af.message_id = m.id
             /\ viewFiltersShort => SqlNotShort(m.message_parts)
        /\ af.next_retry <= now
        /\ af.attempts < RETRY_CUTOFF })

RECURSIVE OrderTies(_)
\* rows in descending order of created_time, one by one (used for the rows of
\* one creation time: the order the store gives to ties)
OrderTies(S) ==
  IF S = {} THEN <<>>
  ELSE LET x == CHOOSE r \in S : \A q \in S : r.created_time >= q.created_time
       IN <<x>> \o OrderTies(S \ {x})

MinOf(T) == CHOOSE a \in T : \A b \in T : a <= b
MaxOf(T) == CHOOSE a \in T : \A b \in T : a >= b

RECURSIVE OrderRange(_, _, _)
\* the rows created in lo..hi, newest first: the newer half, then the older
OrderRange(S, lo, hi) ==
  IF S = {} THEN <<>>
  ELSE IF lo >= hi THEN OrderTies(S)
  ELSE LET mid == (lo + hi) \div 2
       IN OrderRange({r \in S : r.created_time > mid}, mid + 1, hi)
          \o OrderRange({r \in S : r.created_time <= mid}, lo, mid)

\* .order('created_time', { ascending: false })
OrderByCreatedDesc(S) ==
  IF S = {} THEN <<>>
  ELSE LET times == {r.created_time : r \in S}
       IN  OrderRange(S, MinOf(times), MaxOf(times))

RECURSIVE SortByCreatedTime(_)
\* msgs.sort((a, b) => a.created_time - b.created_time), a stable sort
SortByCreatedTime(s) ==
  IF s = <<>> THEN <<>>
  ELSE LET k == CHOOSE i \in DOMAIN s : \A j \in DOMAIN s :
                  \/ s[i].created_time < s[j].created_time
                  \/ s[i].created_time = s[j].created_time /\ i <= j
       IN <<s[k]>> \o SortByCreatedTime(SubSeq(s, 1, k - 1) \o SubSeq(s, k + 1, Len(s)))

\* fetchMessagesForAnalysis: the conversationMap, in insertion order
FetchMessagesForAnalysis(analyzedError) ==
  LET analyzedMessages == IF analyzedError THEN {} ELSE MessageAnalysis
      analyzedIds == {r.message_id : r \in analyzedMessages}
      IsCandidate(m) == m.actor_type = "user" /\ m.message_parts # <<>>
      allMessages == Take(OrderByCreatedDesc({m \in Message : IsCandidate(m)}), FETCH_LIMIT)
      NotAnalyzed(m) == m.id \notin analyzedIds
      NotShort(m) == ~IsShortMessage(m.message_parts)
      messages == SelectSeq(SelectSeq(allMessages, NotAnalyzed), NotShort)
      convs == Dedup([i \in DOMAIN messages |-> messages[i].conversationid], {})
  IN [i \in DOMAIN convs |->
        LET InConv(m) == m.conversationid = convs[i]
        IN [conv |-> convs[i],
            messages |-> SortByCreatedTime(SelectSeq(messages, InConv))]]

\* a faulty variant: the convMap of every row of the view, without the limit
RetryConvMapOfAll ==
  LET failures == FailedMessagesForRetry
      convs == Dedup([i \in DOMAIN failures |-> failures[i].conversation_id], {})
  IN [i \in DOMAIN convs |->
        LET InConv(f) == f.conversation_id = convs[i]
            fs == SelectSeq(failures, InConv)
        IN [conv |-> convs[i],
            messageIds |-> [j \in DOMAIN fs |-> fs[j].message_id]]]

\* retryFailedMessages: the convMap built from the view, in insertion order
RetryConvMap ==
  LET failures == Take(FailedMessagesForRetry, RETRY_PULL_LIMIT)
      convs == Dedup([i \in DOMAIN failures |-> failures[i].conversation_id], {})
  IN [i \in DOMAIN convs |->
        LET InConv(f) == f.conversation_id = convs[i]
            fs == SelectSeq(failures, InConv)
        IN [conv |-> convs[i],
            messageIds |-> [j \in DOMAIN fs |-> fs[j].message_id]]]

\* the orders in which a query without ORDER BY may return a set of rows
\* (every order up to MaxVariedBatch rows, two orders beyond)
RowOrders(S) ==
  IF Cardinality(S) <= MaxVariedBatch
  THEN {s \in [1..Cardinality(S) -> S] : Range(s) = S}
  ELSE {OrderByCreatedDesc(S), SortByCreatedTime(OrderByCreatedDesc(S))}

-----------------------------------------------------------------------------
\* One classification run: runAnalysis

\* runAnalysis starts: retryFailedMessages reads the view
StartRun ==
  /\ pc = "idle"
  /\ runs < MaxRuns
  /\ runs' = runs + 1
  /\ retryQueue' = RetryConvMap
  /\ pc' = "retry"
  /\ processed' = 0
  /\ firstQueue' = <<>>
  /\ lastCall' = NoCall
  /\ UNCHANGED <<Message, MessageAnalysis, AnalysisFailures, viewFiltersShort,
                 now, handInserts>>
  /\ UNCHANGED <<syncVars, pageVars>>
  /\ UNCHANGED fetchVars
  /\ UNCHANGED runVars
  /\ UNCHANGED reconVars
  /\ UNCHANGED backfillVars
  /\ UNCHANGED configVars
  /\ runLog' = NoRunLog
  /\ UNCHANGED overlapVars
  /\ UNCHANGED raceVars
  /\ UNCHANGED limiterVars

\* retryFailedMessages: one iteration of "for (const [convId, messageIds] of convMap)"
RetryConversation ==
  /\ pc = "retry"
  /\ retryQueue # <<>>
  /\ LET entry == Head(retryQueue)
         rows == {m \in Message : m.id \in Range(entry.messageIds)}
     IN IF rows = {}
        THEN /\ lastCall' = NoCall
             /\ UNCHANGED <<MessageAnalysis, AnalysisFailures, runLog>>
        ELSE \E messages \in RowOrders(rows) :
               \E outcome \in ClassifierOutcomes(Min(Len(messages), MAX_MESSAGES_PER_BATCH)) :
                 AnalyzeConversation("retry", entry.conv, messages, outcome)
  /\ retryQueue' = Tail(retryQueue)
  /\ UNCHANGED <<Message, viewFiltersShort, pc, firstQueue, processed, now, runs,
                 handInserts>>
  /\ UNCHANGED <<syncVars, pageVars>>
  /\ UNCHANGED fetchVars
  /\ UNCHANGED runVars
  /\ UNCHANGED reconVars
  /\ UNCHANGED backfillVars
  /\ UNCHANGED configVars
  /\ UNCHANGED overlapVars
  /\ UNCHANGED raceVars
  /\ UNCHANGED limiterVars

\* runAnalysis: the retry pass is over, fetchMessagesForAnalysis selects
BeginFirstPass ==
  /\ pc = "retry"
  /\ retryQueue = <<>>
  /\ \E analyzedError \in BOOLEAN :
       LET conversationMap == FetchMessagesForAnalysis(analyzedError)
       IN /\ firstQueue' = conversationMap
          /\ pc' = IF Len(conversationMap) = 0 THEN "idle" ELSE "first"
          /\ runLog' = IF Len(conversationMap) = 0 THEN NoRunLog ELSE runLog
  /\ lastCall' = NoCall
  /\ UNCHANGED <<Message, MessageAnalysis, AnalysisFailures, viewFiltersShort,
                 retryQueue, processed, now, runs, handInserts>>
  /\ UNCHANGED <<syncVars, pageVars>>
  /\ UNCHANGED fetchVars
  /\ UNCHANGED runVars
  /\ UNCHANGED reconVars
  /\ UNCHANGED backfillVars
  /\ UNCHANGED configVars
  /\ UNCHANGED overlapVars
  /\ UNCHANGED raceVars
  /\ UNCHANGED limiterVars

\* runAnalysis: one iteration of "for (const [convId, messages] of conversationMap)"
AnalyzeNextConversation ==
  /\ pc = "first"
  /\ firstQueue # <<>>
  /\ processed < maxConversations
  /\ LET entry == Head(firstQueue)
     IN \E outcome \in ClassifierOutcomes(Min(Len(entry.messages), MAX_MESSAGES_PER_BATCH)) :
          AnalyzeConversation("first", entry.conv, entry.messages, outcome)
  /\ firstQueue' = Tail(firstQueue)
  /\ processed' = processed + 1
  /\ UNCHANGED <<Message, viewFiltersShort, pc, retryQueue, now, runs, handInserts>>
  /\ UNCHANGED <<syncVars, pageVars>>
  /\ UNCHANGED fetchVars
  /\ UNCHANGED runVars
  /\ UNCHANGED reconVars
  /\ UNCHANGED backfillVars
  /\ UNCHANGED configVars
  /\ UNCHANGED overlapVars
  /\ UNCHANGED raceVars
  /\ UNCHANGED limiterVars

\* runAnalysis: the loop ends (map exhausted or limit reached) and the run exits
FinishRun ==
  /\ pc = "first"
  /\ (firstQueue = <<>> \/ processed >= maxConversations)
  /\ pc' = "idle"
  /\ firstQueue' = <<>>
  /\ lastCall' = NoCall
  /\ UNCHANGED <<Message, MessageAnalysis, AnalysisFailures, viewFiltersShort,
                 retryQueue, processed, now, runs, handInserts>>
  /\ UNCHANGED <<syncVars, pageVars>>
  /\ UNCHANGED fetchVars
  /\ UNCHANGED runVars
  /\ UNCHANGED reconVars
  /\ UNCHANGED backfillVars
  /\ UNCHANGED configVars
  /\ runLog' = NoRunLog
  /\ UNCHANGED overlapVars
  /\ UNCHANGED raceVars
  /\ UNCHANGED limiterVars

-----------------------------------------------------------------------------
\* The environment of the classification engine

\* an hour passes between two runs
Tick ==
  /\ pc = "idle"
  /\ now < MaxTime
  /\ now' = now + 1
  /\ lastCall' = NoCall
  /\ UNCHANGED <<Message, MessageAnalysis, AnalysisFailures, viewFiltersShort,
                 pc, retryQueue, firstQueue, processed, runs, handInserts>>
  /\ UNCHANGED <<syncVars, pageVars>>
  /\ UNCHANGED fetchVars
  /\ UNCHANGED runVars
  /\ UNCHANGED reconVars
  /\ UNCHANGED backfillVars
  /\ UNCHANGED configVars
  /\ UNCHANGED historyVars
  /\ UNCHANGED overlapVars
  /\ UNCHANGED raceVars
  /\ UNCHANGED limiterVars

\* a sync run between two classification runs stores a new message
MessageArrives ==
  /\ pc = "idle"
  /\ \E m \in ArrivingMessages \ Message : Message' = Message \cup {m}
  /\ lastCall' = NoCall
  /\ UNCHANGED <<MessageAnalysis, AnalysisFailures, viewFiltersShort, pc, retryQueue,
                 firstQueue, processed, now, runs, handInserts>>
  /\ UNCHANGED <<syncVars, pageVars>>
  /\ UNCHANGED fetchVars
  /\ UNCHANGED runVars
  /\ UNCHANGED reconVars
  /\ UNCHANGED backfillVars
  /\ UNCHANGED configVars
  /\ UNCHANGED historyVars
  /\ UNCHANGED overlapVars
  /\ UNCHANGED raceVars
  /\ UNCHANGED limiterVars

\* a ledger row for a short message is inserted by hand (column defaults:
\* attempts 1), as the rows the earlier version of the script left behind
InsertFailureByHand ==
  /\ pc = "idle"
  /\ handInserts < MaxHandInserts
  /\ \E m \in Message :
       /\ \A r \in AnalysisFailures : r.message_id # m.id
       /\ IsShortMessage(m.message_parts)
       /\ AnalysisFailures' = AnalysisFailures \cup
            {[message_id |-> m.id, conversation_id |-> m.conversationid,
              error_type |-> "unknown_error", attempts |-> 1,
              last_attempt |-> now, next_retry |-> now]}
  /\ handInserts' = handInserts + 1
  /\ lastCall' = NoCall
  /\ UNCHANGED <<Message, MessageAnalysis, viewFiltersShort, pc, retryQueue,
                 firstQueue, processed, now, runs>>
  /\ UNCHANGED <<syncVars, pageVars>>
  /\ UNCHANGED fetchVars
  /\ UNCHANGED runVars
  /\ UNCHANGED reconVars
  /\ UNCHANGED backfillVars
  /\ UNCHANGED configVars
  /\ UNCHANGED historyVars
  /\ UNCHANGED overlapVars
  /\ UNCHANGED raceVars
  /\ UNCHANGED limiterVars

\* cleanupShortMessages.sql is run: short messages leave the ledger and the
\* views are replaced by the filtering ones
RunCleanupScript ==
  /\ pc = "idle"
  /\ ~viewFiltersShort
  /\ AnalysisFailures' =
       {af \in AnalysisFailures :
          ~\E m \in Message : af.message_id = m.id /\ ~SqlNotShort(m.message_parts)}
  /\ viewFiltersShort' = TRUE
  /\ lastCall' = NoCall
  /\ UNCHANGED <<Message, MessageAnalysis, pc, retryQueue, firstQueue, processed,
                 now, runs, handInserts>>
  /\ UNCHANGED <<syncVars, pageVars>>
  /\ UNCHANGED fetchVars
  /\ UNCHANGED runVars
  /\ UNCHANGED reconVars
  /\ UNCHANGED backfillVars
  /\ UNCHANGED configVars
  /\ UNCHANGED historyVars
  /\ UNCHANGED overlapVars
  /\ UNCHANGED raceVars
  /\ UNCHANGED limiterVars

\* the sync side at rest
NoUpsert == [entity |-> "none", input |-> <<>>, threw |-> FALSE]

SyncIdle ==
  /\ User = {}
  /\ Conversation = {}
  /\ clock = 0
  /\ lastUpsert = NoUpsert
  /\ nUpserts = 0

\* no call of paginate is in progress
NoServer == [script |-> <<>>, tail |-> "empty"]

PageIdle ==
  /\ server = NoServer
  /\ pageSize = 0
  /\ pgPc = "idle"
  /\ page = 0
  /\ items = <<>>
  /\ seenFirstIds = {}
  /\ safety = 0
  /\ fetches = 0

\* no call of fetchWithRetry is in progress
NoResult == [kind |-> "none", status |-> NoNumber, data |-> <<>>]

FetchIdle ==
  /\ fwFlow = "none"
  /\ fwPc = "idle"
  /\ attempt = 0
  /\ waits = <<>>
  /\ fwResult = NoResult

\* no sync run has started
NoSummary ==
  [usersUpserted |-> 0, convsUpserted |-> 0, msgsUpserted |-> 0,
   convsSkippedNotInWindow |-> 0, convsSkippedNoBot |-> 0]

NoProgress ==
  [usersListed |-> 0, usersVisited |-> 0, convsListed |-> 0, convsVisited |-> 0,
   caught |-> 0]

NoConv ==
  [outcome |-> "none", convoId |-> None, detail |-> <<>>, uc |-> <<>>,
   upserted |-> FALSE, fetchedMessages |-> FALSE, fetched |-> <<>>, written |-> <<>>]

RunIdle ==
  /\ syPc = "idle"
  /\ window = [start |-> 0, end |-> 0]
  /\ userQueue = <<>>
  /\ ucQueue = <<>>
  /\ summary = NoSummary
  /\ exitStatus = NoNumber
  /\ progress = NoProgress
  /\ lastConv = NoConv

\* no reconciliation has started
NoRefetchSummary == [checked |-> 0, resolved |-> 0, updated |-> 0, errors |-> 0]

NoRefetch == [outcome |-> "none", dbConvo |-> <<>>, fresh |-> <<>>]

ReconIdle ==
  /\ rcPc = "idle"
  /\ rcQueue = <<>>
  /\ rcSummary = NoRefetchSummary
  /\ lastRefetch = NoRefetch

NoStats ==
  [totalConversations |-> 0, conversationsProcessed |-> 0, conversationsFailed |-> 0,
   totalMessagesInserted |-> 0, totalMessagesFailed |-> 0]

NoBackfill ==
  [outcome |-> "none", convId |-> None, messages |-> <<>>, existing |-> {},
   newMessages |-> 0, skippedMessages |-> 0, before |-> {}]

BackfillIdle ==
  /\ bfPc = "idle"
  /\ bfQueue = <<>>
  /\ bfRemote = <<>>
  /\ bfRun = 0
  /\ bfStats = NoStats
  /\ lastBackfill = NoBackfill
  /\ bfDone = {}
  /\ bfBatchSize = DEFAULT_BATCH_SIZE
  /\ bfConversations = <<>>
  /\ bfI = 0
  /\ bfBatches = 0

ConfigDefault ==
  /\ maxConversations = MAX_CONVERSATIONS_TO_PROCESS

HistoryIdle ==
  /\ runLog = NoRunLog

OverlapIdle ==
  /\ recorders = [p \in Processes |-> IdleRecorder]

RaceIdle ==
  /\ remoteConvo = FirstRemote
  /\ inFlight = [x \in Writers |-> NoFlight]

LimiterIdle ==
  /\ rlCapacity = DEFAULT_RPM
  /\ rlTokens = DEFAULT_RPM
  /\ rlLastRefill = 0
  /\ rlNow = 0
  /\ rlWake = NoNumber
  /\ rlGrants = [t \in 0..MaxTicks |-> 0]

-----------------------------------------------------------------------------
\* Specification of the classification engine

Init ==
  /\ Message = InitialMessages
  /\ MessageAnalysis = {}
  /\ AnalysisFailures = {}
  /\ viewFiltersShort = FALSE
  /\ pc = "idle"
  /\ retryQueue = <<>>
  /\ firstQueue = <<>>
  /\ processed = 0
  /\ now = 0
  /\ runs = 0
  /\ handInserts = 0
  /\ lastCall = NoCall
  /\ SyncIdle
  /\ PageIdle
  /\ FetchIdle
  /\ RunIdle
  /\ ReconIdle
  /\ BackfillIdle
  /\ ConfigDefault
  /\ HistoryIdle
  /\ OverlapIdle
  /\ RaceIdle
  /\ LimiterIdle

Next ==
  \/ StartRun
  \/ RetryConversation
  \/ BeginFirstPass
  \/ AnalyzeNextConversation
  \/ FinishRun
  \/ Tick
  \/ MessageArrives
  \/ InsertFailureByHand
  \/ RunCleanupScript

Spec == Init /\ [][Next]_vars

\* The engine alone, on a store no one edits by hand, under either deployed
\* definition of the view
InitEngine ==
  /\ Message = InitialMessages
  /\ MessageAnalysis = {}
  /\ AnalysisFailures = {}
  /\ viewFiltersShort \in BOOLEAN
  /\ pc = "idle"
  /\ retryQueue = <<>>
  /\ firstQueue = <<>>
  /\ processed = 0
  /\ now = 0
  /\ runs = 0
  /\ handInserts = 0
  /\ lastCall = NoCall
  /\ SyncIdle
  /\ PageIdle
  /\ FetchIdle
  /\ RunIdle
  /\ ReconIdle
  /\ BackfillIdle
  /\ ConfigDefault
  /\ HistoryIdle
  /\ OverlapIdle
  /\ RaceIdle
  /\ LimiterIdle

NextEngine ==
  \/ StartRun
  \/ RetryConversation
  \/ BeginFirstPass
  \/ AnalyzeNextConversation
  \/ FinishRun
  \/ Tick
  \/ MessageArrives

SpecEngine == InitEngine /\ [][NextEngine]_vars

-----------------------------------------------------------------------------
\* Claims about the classification engine

LedgerRow(id) == {af \in AnalysisFailures : af.message_id = id}
AnalysisRow(id) == {r \in MessageAnalysis : r.message_id = id}
ViewIds == {FailedMessagesForRetry[i].message_id : i \in DOMAIN FailedMessagesForRetry}
QueuedForRetry == UNION {Range(retryQueue[i].messageIds) : i \in DOMAIN retryQueue}

\* C1: once a message's attempt count is >= 3, no later step of any run (retry
\* pass or first-time pass) sends it to the classifier, and a message without
\* an analysis row stays without one.
C1_CutoffIsPermanent ==
  [][\A af \in AnalysisFailures :
       af.attempts >= RETRY_CUTOFF =>
         /\ af.message_id \notin Range(lastCall'.sent)
         /\ AnalysisRow(af.message_id) = {} =>
              \A r \in MessageAnalysis' : r.message_id # af.message_id]_vars

\* C2: a message that has a MessageAnalysis row is neither selected by the
\* retry pass nor sent to the classifier by it, even while its ledger row has
\* attempts < 3 and next-retry <= now.
C2_AnalyzedIsResolved ==
  [][\A r \in MessageAnalysis :
       /\ pc' = "retry" /\ pc = "idle" => r.message_id \notin QueuedForRetry'
       /\ lastCall'.pass = "retry" => r.message_id \notin Range(lastCall'.sent)]_vars

\* C3: every ledger row has 1 <= attempts <= 3, and a row with attempts = 3 is
\* absent from the retry-eligible view.
C3_AttemptsWithinCutoff ==
  \A af \in AnalysisFailures :
    /\ af.attempts >= 1
    /\ af.attempts <= RETRY_CUTOFF
    /\ af.attempts >= RETRY_CUTOFF => af.message_id \notin ViewIds

\* C4: a short message is never sent to the classifier, no run writes a ledger
\* row for it, and the retry pass never selects it even when a ledger row for
\* it was inserted by hand.
C4_ShortNeverAttempted ==
  \A m \in Message :
    IsShortMessage(m.message_parts) =>
      /\ m.id \notin Range(lastCall.sent)
      /\ m.id \notin Range(lastCall.batch)
      /\ m.id \notin QueuedForRetry

\* C5: the store holds at most one MessageAnalysis row and at most one
\* AnalysisFailures row per message id.
C5_OneRowPerMessage ==
  /\ \A r1, r2 \in MessageAnalysis : r1.message_id = r2.message_id => r1 = r2
  /\ \A f1, f2 \in AnalysisFailures : f1.message_id = f2.message_id => f1 = f2

\* C5 witness: a successful call has just upserted the analysis of a message
\* that already had an analysis row and also has a ledger row.
C5_Witness ==
  /\ ~lastCall.failed
  /\ \E id \in lastCall.hadAnalysis : LedgerRow(id) # {} /\ AnalysisRow(id) # {}

-----------------------------------------------------------------------------
\* The sync engine: the rows written from remote records

\* a remote timestamp: absent, an ISO string with milliseconds, or an ISO
\* string without them; t is the instant it denotes
Absent == [fmt |-> "absent", t |-> 0]
RemoteTime(fmt, t) == [fmt |-> fmt, t |-> t]

\* JS  a || b  for timestamps
OrElseTime(a, b) == IF a.fmt = "absent" THEN b ELSE a

\* new Date(x).toISOString(): the one canonical form of the instant
ToISOString(x) == [fmt |-> "iso", t |-> x.t]

\* Date.now(), a number of milliseconds
DateNow(t) == [fmt |-> "epoch", t |-> t]

\* supabase.from(table).upsert(row, { onConflict: 'id' })
Upsert(table, row) == {r \in table : r.id # row.id} \cup {row}

\* the row upsertUser builds
UserRow(user, t) ==
  [id |-> user.id,
   phone_no |-> OrElse(user.phone, OrElse(user.phone_number, "")),
   created_time |->
     ToISOString(OrElseTime(user.created_time, OrElseTime(user.created_at, DateNow(t))))]

\* (convo?.assigned_to?.id || convo?.assigned_to || '') + ''
AssignedTo(a) ==
  IF a.kind = "object" THEN OrElse(a.id, "[object Object]")
  ELSE IF a.kind = "string" THEN a.id
  ELSE ""

\* the row upsertConversation builds
ConversationRow(convo, overrideId, t) ==
  [id |-> OrElse(overrideId, OrElse(convo.id, OrElse(convo.uuid, ""))),
   userid |-> OrElse(convo.userId, OrElse(convo.users0id, OrElse(convo.user_id, ""))),
   status |-> OrElse(convo.status, ""),
   channel_id |-> OrElse(convo.channel_id, ""),
   created_time |->
     ToISOString(OrElseTime(convo.created_time, OrElseTime(convo.created_at, DateNow(t)))),
   updated_time |->
     ToISOString(OrElseTime(convo.updated_time, OrElseTime(convo.updated_at,
                 OrElseTime(convo.created_time, DateNow(t))))),
   assigned_to |-> AssignedTo(convo.assigned_to),
   custom_properties |-> OrElse(convo.custom_properties, "{}")]

\* one element of message_parts: the fields a part can carry, <<>> when the
\* field is missing or empty (both falsy); str is set when the part is itself
\* a string
Part(textContent, content, text, str) ==
  [textContent |-> textContent, content |-> content, text |-> text, str |-> str]

\* the text extractMessageContent takes from one element of an array
PartText(part) ==
  IF part.textContent # <<>> THEN JsTrim(part.textContent)
  ELSE IF part.content # <<>> THEN JsTrim(part.content)
  ELSE IF part.text # <<>> THEN JsTrim(part.text)
  ELSE JsTrim(part.str)

\* texts.filter(t => t.length > 0).join(' ')
RECURSIVE JoinTexts(_)
JoinTexts(parts) ==
  IF parts = <<>> THEN <<>>
  ELSE LET head == PartText(parts[1])
           rest == JoinTexts(Tail(parts))
       IN  IF head = <<>> THEN rest
           ELSE IF rest = <<>> THEN head
           ELSE head \o <<" ">> \o rest

\* String(parts) of an object without a recognised field
ObjectObject == <<"[","o","b","j","e","c","t"," ","O","b","j","e","c","t","]">>

\* message_parts as the remote sends it
NoParts == [kind |-> "absent", items |-> <<>>]
ArrayOf(elems) == [kind |-> "array", items |-> elems]
SingleObject(part) == [kind |-> "object", items |-> <<part>>]
Scalar(str) == [kind |-> "string", items |-> <<Part(<<>>, <<>>, <<>>, str)>>]

\* JS  a || b  for message_parts: undefined, null and "" are falsy, [] is not
OrElseParts(a, b) ==
  IF a.kind = "absent" \/ (a.kind = "string" /\ a.items[1].str = <<>>) THEN b ELSE a

\* extractMessageContent
ExtractMessageContent(parts) ==
  IF parts.kind = "absent" THEN <<>>
  ELSE IF parts.kind = "array" THEN JoinTexts(parts.items)
  ELSE IF parts.kind = "object" THEN
    LET p == parts.items[1] IN
      IF p.textContent # <<>> THEN JsTrim(p.textContent)
      ELSE IF p.content # <<>> THEN JsTrim(p.content)
      ELSE IF p.text # <<>> THEN JsTrim(p.text)
      ELSE ObjectObject
  ELSE JsTrim(parts.items[1].str)

\* the key of a Message row: the remote id, or `${conversationId}-${iso}`
RemoteKey(id) == [remote |-> id, conv |-> None, at |-> NoNumber]
SynthesizedKey(conversationId, iso) ==
  [remote |-> None, conv |-> conversationId, at |-> iso.t]

\* the row upsertMessage builds (rating NoNumber: null)
MessageRow(msg, conversationId, t) ==
  LET created == ToISOString(OrElseTime(msg.created_time,
                             OrElseTime(msg.created_at, DateNow(t))))
      remote  == OrElse(msg.id, msg.uuid)
  IN  [id |-> IF remote \in {None, ""} THEN SynthesizedKey(conversationId, created)
              ELSE RemoteKey(remote),
       conversationid |-> conversationId,
       actor_type |-> OrElse(msg.actor_type, ""),
       message_parts |-> ExtractMessageContent(OrElseParts(msg.message_parts, msg.parts)),
       created_time |-> created,
       rating |-> msg.rating]

\* Remote records as the remote platform can send them
RemoteUsers ==
  { [id |-> "u1", phone |-> "p1", phone_number |-> None,
     created_time |-> RemoteTime("short", 0), created_at |-> Absent],
    [id |-> "u2", phone |-> None, phone_number |-> "p2",
     created_time |-> Absent, created_at |-> RemoteTime("iso", 1)],
    [id |-> "u3", phone |-> None, phone_number |-> None,
     created_time |-> Absent, created_at |-> Absent] }

RemoteConversations ==
  { [id |-> "c1", uuid |-> None, userId |-> "u1", users0id |-> None, user_id |-> None,
     status |-> "new", channel_id |-> "ch", created_time |-> RemoteTime("short", 0),
     created_at |-> Absent, updated_time |-> RemoteTime("iso", 1), updated_at |-> Absent,
     assigned_to |-> [kind |-> "object", id |-> "a1"], custom_properties |-> "props"],
    [id |-> None, uuid |-> "c2", userId |-> None, users0id |-> "u2", user_id |-> None,
     status |-> None, channel_id |-> None, created_time |-> RemoteTime("iso", 0),
     created_at |-> Absent, updated_time |-> Absent, updated_at |-> Absent,
     assigned_to |-> [kind |-> "string", id |-> "a2"], custom_properties |-> None],
    [id |-> "c3", uuid |-> None, userId |-> None, users0id |-> None, user_id |-> "u3",
     status |-> "resolved", channel_id |-> None, created_time |-> Absent,
     created_at |-> RemoteTime("iso", 0), updated_time |-> Absent, updated_at |-> Absent,
     assigned_to |-> [kind |-> "absent", id |-> None], custom_properties |-> None],
    [id |-> "c4", uuid |-> None, userId |-> "u1", users0id |-> None, user_id |-> None,
     status |-> "open", channel_id |-> "ch", created_time |-> RemoteTime("iso", 1),
     created_at |-> Absent, updated_time |-> RemoteTime("iso", 0), updated_at |-> Absent,
     assigned_to |-> [kind |-> "absent", id |-> None], custom_properties |-> None],
    [id |-> "c5", uuid |-> None, userId |-> "u1", users0id |-> None, user_id |-> None,
     status |-> "open", channel_id |-> "ch", created_time |-> Absent,
     created_at |-> Absent, updated_time |-> RemoteTime("iso", 0), updated_at |-> Absent,
     assigned_to |-> [kind |-> "absent", id |-> None], custom_properties |-> None] }

OverrideIds == {None, "c9"}

ConversationIds == {"c1"}

TextHello == <<" ", "h", "i">>

\* [{text:{content:"a"}},{text:{content:""}},{content:"b"}]
ExampleParts ==
  ArrayOf(<<Part(<<"a">>, <<>>, <<>>, <<>>), Part(<<>>, <<>>, <<>>, <<>>),
            Part(<<>>, <<"b">>, <<>>, <<>>)>>)

RemoteMessages ==
  { [id |-> "x1", uuid |-> None, actor_type |-> "user",
     message_parts |-> ArrayOf(<<Part(TextHello, <<>>, <<>>, <<>>), Part(<<>>, <<>>, <<>>, TextOk)>>),
     parts |-> NoParts, created_time |-> RemoteTime("iso", 0), created_at |-> Absent,
     rating |-> NoNumber],
    [id |-> None, uuid |-> "x2", actor_type |-> None,
     message_parts |-> NoParts, parts |-> SingleObject(Part(<<>>, TextHello, <<>>, <<>>)),
     created_time |-> Absent, created_at |-> RemoteTime("short", 1), rating |-> 0],
    [id |-> None, uuid |-> None, actor_type |-> "agent",
     message_parts |-> Scalar(TextHello), parts |-> NoParts,
     created_time |-> RemoteTime("short", 1), created_at |-> Absent, rating |-> NoNumber],
    [id |-> None, uuid |-> None, actor_type |-> "user",
     message_parts |-> ArrayOf(<<Part(<<>>, <<>>, TextOk, <<>>)>>), parts |-> NoParts,
     created_time |-> Absent, created_at |-> Absent, rating |-> NoNumber],
    [id |-> "x5", uuid |-> None, actor_type |-> "user",
     message_parts |-> ExampleParts, parts |-> NoParts,
     created_time |-> RemoteTime("iso", 0), created_at |-> Absent, rating |-> NoNumber],
    [id |-> "x6", uuid |-> None, actor_type |-> "user",
     message_parts |-> SingleObject(Part(<<>>, <<>>, <<>>, <<>>)), parts |-> NoParts,
     created_time |-> RemoteTime("iso", 0), created_at |-> Absent, rating |-> NoNumber] }

-----------------------------------------------------------------------------
\* The upserts of one sync run

\* upsertUser(user); dbError: the store answers with an error and the call throws
UpsertUser ==
  /\ nUpserts < MaxUpserts
  /\ \E user \in RemoteUsers, dbError \in BOOLEAN :
       /\ User' = IF dbError THEN User ELSE Upsert(User, UserRow(user, clock))
       /\ lastUpsert' = [entity |-> "User", input |-> <<user>>, threw |-> dbError]
  /\ nUpserts' = nUpserts + 1
  /\ UNCHANGED <<analysisVars, Conversation, clock, pageVars>>
  /\ UNCHANGED fetchVars
  /\ UNCHANGED runVars
  /\ UNCHANGED reconVars
  /\ UNCHANGED backfillVars
  /\ UNCHANGED configVars
  /\ UNCHANGED historyVars
  /\ UNCHANGED overlapVars
  /\ UNCHANGED raceVars
  /\ UNCHANGED limiterVars

\* upsertConversation(convo, overrideId)
UpsertConversation ==
  /\ nUpserts < MaxUpserts
  /\ \E convo \in RemoteConversations, overrideId \in OverrideIds, dbError \in BOOLEAN :
       /\ Conversation' = IF dbError THEN Conversation
                          ELSE Upsert(Conversation, ConversationRow(convo, overrideId, clock))
       /\ lastUpsert' = [entity |-> "Conversation", input |-> <<convo, overrideId>>,
                         threw |-> dbError]
  /\ nUpserts' = nUpserts + 1
  /\ UNCHANGED <<MessageAnalysis, AnalysisFailures, viewFiltersShort, pc, retryQueue,
                 firstQueue, processed, now, runs, handInserts, lastCall>>
  /\ UNCHANGED <<Message, User, clock, pageVars>>
  /\ UNCHANGED fetchVars
  /\ UNCHANGED runVars
  /\ UNCHANGED reconVars
  /\ UNCHANGED backfillVars
  /\ UNCHANGED configVars
  /\ UNCHANGED historyVars
  /\ UNCHANGED overlapVars
  /\ UNCHANGED raceVars
  /\ UNCHANGED limiterVars

\* upsertMessage(msg, conversationId)
UpsertMessage ==
  /\ nUpserts < MaxUpserts
  /\ \E msg \in RemoteMessages, conversationId \in ConversationIds, dbError \in BOOLEAN :
       /\ Message' = IF dbError THEN Message
                     ELSE Upsert(Message, MessageRow(msg, conversationId, clock))
       /\ lastUpsert' = [entity |-> "Message", input |-> <<msg, conversationId>>,
                         threw |-> dbError]
  /\ nUpserts' = nUpserts + 1
  /\ UNCHANGED <<MessageAnalysis, AnalysisFailures, viewFiltersShort, pc, retryQueue,
                 firstQueue, processed, now, runs, handInserts, lastCall>>
  /\ UNCHANGED <<User, Conversation, clock, pageVars>>
  /\ UNCHANGED fetchVars
  /\ UNCHANGED runVars
  /\ UNCHANGED reconVars
  /\ UNCHANGED backfillVars
  /\ UNCHANGED configVars
  /\ UNCHANGED historyVars
  /\ UNCHANGED overlapVars
  /\ UNCHANGED raceVars
  /\ UNCHANGED limiterVars

\* time passes in the sync process
ClockAdvances ==
  /\ clock < MaxClock
  /\ clock' = clock + 1
  /\ UNCHANGED <<analysisVars, User, Conversation, lastUpsert, nUpserts, pageVars>>
  /\ UNCHANGED fetchVars
  /\ UNCHANGED runVars
  /\ UNCHANGED reconVars
  /\ UNCHANGED backfillVars
  /\ UNCHANGED configVars
  /\ UNCHANGED historyVars
  /\ UNCHANGED overlapVars
  /\ UNCHANGED raceVars
  /\ UNCHANGED limiterVars

InitUpsert ==
  /\ Message = {}
  /\ MessageAnalysis = {}
  /\ AnalysisFailures = {}
  /\ viewFiltersShort = FALSE
  /\ pc = "idle"
  /\ retryQueue = <<>>
  /\ firstQueue = <<>>
  /\ processed = 0
  /\ now = 0
  /\ runs = 0
  /\ handInserts = 0
  /\ lastCall = NoCall
  /\ SyncIdle
  /\ PageIdle
  /\ FetchIdle
  /\ RunIdle
  /\ ReconIdle
  /\ BackfillIdle
  /\ ConfigDefault
  /\ HistoryIdle
  /\ OverlapIdle
  /\ RaceIdle
  /\ LimiterIdle

NextUpsert ==
  \/ UpsertUser
  \/ UpsertConversation
  \/ UpsertMessage
  \/ ClockAdvances

SpecUpsert == InitUpsert /\ [][NextUpsert]_vars

-----------------------------------------------------------------------------
\* Claims about the upserts

\* the same upsert is applied for the second time in a row, and both succeed
SecondApplication ==
  /\ nUpserts' = nUpserts + 1
  /\ lastUpsert.entity # "none"
  /\ lastUpsert'.entity = lastUpsert.entity
  /\ lastUpsert'.input = lastUpsert.input
  /\ ~lastUpsert.threw
  /\ ~lastUpsert'.threw

\* C7: applying the upsert of a User, Conversation or Message twice with the
\* same remote input leaves the store as a single application left it: one
\* record under the key, equal to the one the first application wrote.
C7_UpsertIdempotent ==
  [][SecondApplication =>
       /\ User' = User
       /\ Conversation' = Conversation
       /\ Message' = Message]_vars

-----------------------------------------------------------------------------
\* The paginated fetch client: paginate

\* an item of a page: id and uuid, <<>> when missing (falsy)
ItemA == [id |-> <<"a">>, uuid |-> <<>>]
ItemB == [id |-> <<>>, uuid |-> <<"b">>]
ItemN == [id |-> <<>>, uuid |-> <<>>]

\* a response body: the list under itemsKey, a bare list, or neither
Keyed(elems) == [shape |-> "keyed", items |-> elems]
Bare(elems) == [shape |-> "bare", items |-> elems]
Other == [shape |-> "other", items |-> <<>>]

\* the bodies a server is scripted with
Pages ==
  { Keyed(<<>>), Keyed(<<ItemA>>), Keyed(<<ItemB>>), Keyed(<<ItemN>>),
    Keyed(<<ItemA, ItemB>>), Keyed(<<ItemN, ItemA>>), Bare(<<ItemB, ItemN>>), Other }

Scripts == UNION {[1..n -> Pages] : n \in 0..MaxScript}

\* after its script a server answers empty pages, repeats its last page, or
\* sends full pages of new items for ever
Tails == {"empty", "repeat", "fresh"}

Servers == [script : Scripts, tail : Tails]

\* params.items_per_page as the callers can pass it (NoNumber: not passed)
ItemsPerPage == {NoNumber, 1, 2}

\* (params.items_per_page as number) || 10
PageSize(itemsPerPage) == OrElseNumber(itemsPerPage, DEFAULT_PAGE_SIZE)

FreshPage(p, size) ==
  Keyed([i \in 1..size |-> [id |-> <<"p", p, i>>, uuid |-> <<>>]])

\* the body the server sends for page p
Response(srv, p, size) ==
  IF p <= Len(srv.script) THEN srv.script[p]
  ELSE IF srv.tail = "repeat" /\ srv.script # <<>> THEN srv.script[Len(srv.script)]
  ELSE IF srv.tail = "fresh" THEN FreshPage(p, size)
  ELSE Keyed(<<>>)

\* Array.isArray(data?.[itemsKey]) ? data[itemsKey] : Array.isArray(data) ? data : []
PageItems(data) == IF data.shape \in {"keyed", "bare"} THEN data.items ELSE <<>>

\* JS  a || b  for identifiers
OrElseId(a, b) == IF a = <<>> THEN b ELSE a

\* pageItems[0] && (pageItems[0].id || pageItems[0].uuid)
FirstId(pageItems) == OrElseId(pageItems[1].id, pageItems[1].uuid)

\* a faulty variant: a short page is not taken for the last one
IsLastPageNever(pageItems, size) == FALSE

\* pageItems.length < pageSize
IsLastPage(pageItems, size) == Len(pageItems) < size

\* a faulty variant: items whose like is already in the result are left out
PushNew(list, pageItems) ==
  list \o SelectSeq(pageItems, LAMBDA x : \A i \in DOMAIN list : list[i] # x)

\* items.push(...pageItems)
Push(list, pageItems) == list \o pageItems

\* one iteration of the loop: fetch the page, then decide
FetchPage ==
  /\ pgPc = "loop"
  /\ fetches' = fetches + 1
  /\ LET pageItems == PageItems(Response(server, page, pageSize))
         pushed    == Push(items, pageItems)
         firstId   == IF pageItems = <<>> THEN <<>> ELSE FirstId(pageItems)
     IN  IF pageItems = <<>>
         THEN /\ pgPc' = "done"
              /\ UNCHANGED <<items, seenFirstIds, page, safety>>
         ELSE /\ items' = pushed
              /\ IF firstId # <<>> /\ firstId \in seenFirstIds
                 THEN /\ pgPc' = "done"
                      /\ UNCHANGED <<seenFirstIds, page, safety>>
                 ELSE /\ seenFirstIds' = IF firstId # <<>>
                                         THEN seenFirstIds \cup {firstId}
                                         ELSE seenFirstIds
                      /\ IF IsLastPage(pageItems, pageSize) \/ Len(pushed) = Len(items)
                         THEN /\ pgPc' = "done"
                              /\ UNCHANGED <<page, safety>>
                         ELSE /\ page' = page + 1
                              /\ safety' = safety + 1
                              /\ pgPc' = IF safety + 1 > SAFETY_CEILING
                                         THEN "done" ELSE "loop"
  /\ UNCHANGED <<analysisVars, syncVars, server, pageSize>>
  /\ UNCHANGED fetchVars
  /\ UNCHANGED runVars
  /\ UNCHANGED reconVars
  /\ UNCHANGED backfillVars
  /\ UNCHANGED configVars
  /\ UNCHANGED historyVars
  /\ UNCHANGED overlapVars
  /\ UNCHANGED raceVars
  /\ UNCHANGED limiterVars

\* fetchWithRetry throws (an error other than throttling, or throttling that
\* outlasts the retries): the call of paginate rejects
FetchFails ==
  /\ pgPc = "loop"
  /\ fetches' = fetches + 1
  /\ pgPc' = "threw"
  /\ items' = <<>>
  /\ seenFirstIds' = {}
  /\ UNCHANGED <<analysisVars, syncVars, server, pageSize, page, safety>>
  /\ UNCHANGED fetchVars
  /\ UNCHANGED runVars
  /\ UNCHANGED reconVars
  /\ UNCHANGED backfillVars
  /\ UNCHANGED configVars
  /\ UNCHANGED historyVars
  /\ UNCHANGED overlapVars
  /\ UNCHANGED raceVars
  /\ UNCHANGED limiterVars

InitPaginate ==
  /\ Message = {}
  /\ MessageAnalysis = {}
  /\ AnalysisFailures = {}
  /\ viewFiltersShort = FALSE
  /\ pc = "idle"
  /\ retryQueue = <<>>
  /\ firstQueue = <<>>
  /\ processed = 0
  /\ now = 0
  /\ runs = 0
  /\ handInserts = 0
  /\ lastCall = NoCall
  /\ SyncIdle
  /\ server \in Servers
  /\ pageSize \in {PageSize(n) : n \in ItemsPerPage}
  /\ pgPc = "loop"
  /\ page = 1
  /\ items = <<>>
  /\ seenFirstIds = {}
  /\ safety = 0
  /\ fetches = 0
  /\ FetchIdle
  /\ RunIdle
  /\ ReconIdle
  /\ BackfillIdle
  /\ ConfigDefault
  /\ HistoryIdle
  /\ OverlapIdle
  /\ RaceIdle
  /\ LimiterIdle

NextPaginate ==
  \/ FetchPage
  \/ FetchFails

SpecPaginate == InitPaginate /\ [][NextPaginate]_vars

-----------------------------------------------------------------------------
\* Claims about paginate

\* C8: whatever the server answers, one call of paginate issues at most 200
\* page fetches.
C8_FetchCeiling == fetches <= SAFETY_CEILING

\* the server ignores the page parameter and always sends the same full page
SamePageForEver ==
  /\ Len(server.script) = 1
  /\ server.tail = "repeat"
  /\ Len(PageItems(server.script[1])) = pageSize

\* C9: against a server that always sends the same full page, paginate stops
\* after at most 2 fetches.
C9_RepeatDetected == SamePageForEver => fetches <= 2

\* the first page is full and the second has fewer items than the page size
FullThenShort ==
  /\ Len(server.script) >= 2
  /\ Len(PageItems(server.script[1])) = pageSize
  /\ Len(PageItems(server.script[2])) < pageSize

\* C10: when the first page is full and the second has fewer items than the
\* page size, paginate issues no third fetch and returns the items of page 1
\* followed by the items of page 2.
C10_TwoPages ==
  FullThenShort =>
    /\ fetches <= 2
    /\ pgPc = "done" =>
         /\ fetches = 2
         /\ items = PageItems(server.script[1]) \o PageItems(server.script[2])

\* C10 witness: a call has returned after a full first page and a shorter,
\* non-empty second page.
C10_Witness ==
  /\ FullThenShort
  /\ pgPc = "done"
  /\ PageItems(server.script[2]) # <<>>
  /\ Len(items) > pageSize

-----------------------------------------------------------------------------
\* The paginated fetch client: fetchWithRetry, as each ingestion flow has it

Flows == {"sync", "reconciliation", "backfill"}

RECURSIVE Pow2(_)
Pow2(n) == IF n <= 0 THEN 1 ELSE 2 * Pow2(n - 1)

\* attempt < 4 (sync, reconciliation); attempt < retries, retries = 3 (backfill)
MaxAttempts(flow) == IF flow = "backfill" THEN BACKFILL_RETRIES ELSE MAX_ATTEMPTS

\* Math.pow(2, attempt - 1) * 1000 (sync, reconciliation);
\* Math.pow(2, attempt) * 1000 (backfill)
Backoff(flow, n) ==
  IF flow = "backfill" THEN Pow2(n) * BACKOFF_BASE_MS
  ELSE Pow2(n - 1) * BACKOFF_BASE_MS

\* err?.response?.status of a failed request; NoNumber: no response at all
ErrorStatuses == {THROTTLED, 401, 500, NoNumber}

\* the request succeeds: response.data is returned
GetSucceeds ==
  /\ fwPc = "get"
  /\ \E data \in Pages :
       fwResult' = [kind |-> "data", status |-> NoNumber, data |-> <<data>>]
  /\ fwPc' = "returned"
  /\ UNCHANGED <<fwFlow, attempt, waits>>
  /\ UNCHANGED <<analysisVars, syncVars, pageVars>>
  /\ UNCHANGED runVars
  /\ UNCHANGED reconVars
  /\ UNCHANGED backfillVars
  /\ UNCHANGED configVars
  /\ UNCHANGED historyVars
  /\ UNCHANGED overlapVars
  /\ UNCHANGED raceVars
  /\ UNCHANGED limiterVars

\* the request fails: a throttled request below the ceiling is repeated after
\* the backoff, any other failure is thrown to the caller
GetFails ==
  /\ fwPc = "get"
  /\ \E status \in ErrorStatuses :
       IF status = THROTTLED /\ attempt < MaxAttempts(fwFlow)
       THEN /\ waits' = Append(waits, [status |-> status, ms |-> Backoff(fwFlow, attempt)])
            /\ attempt' = attempt + 1
            /\ UNCHANGED <<fwPc, fwResult>>
       ELSE /\ fwPc' = "threw"
            /\ fwResult' = [kind |-> "error", status |-> status, data |-> <<>>]
            /\ UNCHANGED <<attempt, waits>>
  /\ UNCHANGED fwFlow
  /\ UNCHANGED <<analysisVars, syncVars, pageVars>>
  /\ UNCHANGED runVars
  /\ UNCHANGED reconVars
  /\ UNCHANGED backfillVars
  /\ UNCHANGED configVars
  /\ UNCHANGED historyVars
  /\ UNCHANGED overlapVars
  /\ UNCHANGED raceVars
  /\ UNCHANGED limiterVars

InitFetch ==
  /\ Message = {}
  /\ MessageAnalysis = {}
  /\ AnalysisFailures = {}
  /\ viewFiltersShort = FALSE
  /\ pc = "idle"
  /\ retryQueue = <<>>
  /\ firstQueue = <<>>
  /\ processed = 0
  /\ now = 0
  /\ runs = 0
  /\ handInserts = 0
  /\ lastCall = NoCall
  /\ SyncIdle
  /\ PageIdle
  /\ fwFlow \in Flows
  /\ fwPc = "get"
  /\ attempt = 1
  /\ waits = <<>>
  /\ fwResult = NoResult
  /\ RunIdle
  /\ ReconIdle
  /\ BackfillIdle
  /\ ConfigDefault
  /\ HistoryIdle
  /\ OverlapIdle
  /\ RaceIdle
  /\ LimiterIdle

NextFetch ==
  \/ GetSucceeds
  \/ GetFails

SpecFetch == InitFetch /\ [][NextFetch]_vars

-----------------------------------------------------------------------------
\* Claims about fetchWithRetry

\* the waits of the contract, in ms, before attempts 2, 3 and 4
ContractWaits == <<1000, 2000, 4000>>

\* C11: in every flow a fetch is attempted at most 4 times; only throttled
\* requests are repeated, after waits of 1s, 2s and 4s; any other failure is
\* thrown at once, and a throttled request is thrown only on attempt 4.
C11_RetryPolicy ==
  fwPc # "idle" =>
    /\ attempt \in 1..MAX_ATTEMPTS
    /\ Len(waits) = attempt - 1
    /\ \A i \in DOMAIN waits :
         waits[i] = [status |-> THROTTLED, ms |-> ContractWaits[i]]
    /\ (fwPc = "threw" /\ fwResult.status = THROTTLED) => attempt = MAX_ATTEMPTS

-----------------------------------------------------------------------------
\* The sync engine: one run of fetchAndStore

\* String.prototype.toUpperCase() on the actor roles and assignee types met
ToUpperCase(str) ==
  CASE str \in {"system", "System", "SYSTEM"} -> "SYSTEM"
    [] str \in {"bot", "Bot", "BOT"} -> "BOT"
    [] str \in {"user", "USER"} -> "USER"
    [] str \in {"agent", "AGENT"} -> "AGENT"
    [] OTHER -> str

\* isWithinWindow(isoString, windowStart, now), guarded by !!isoString
InWindow(ts, w) == ts.fmt # "absent" /\ ts.t >= w.start /\ ts.t <= w.end

\* the users the remote lists as updated in the window
UserLists ==
  LET u1 == CHOOSE u \in RemoteUsers : u.id = "u1"
      u2 == CHOOSE u \in RemoteUsers : u.id = "u2"
  IN  {<<>>, <<u1>>, <<u1, u2>>}

\* an entry of a user's conversation list
ListedConversation(id, created) ==
  [id |-> id, uuid |-> None, created_time |-> created, created_at |-> Absent,
   updated_time |-> Absent, updated_at |-> Absent]

\* the conversation lists the remote answers with; times: 0 is before the
\* window, 1 its start, 3 its end, 4 after it
ConversationLists ==
  { <<>>,
    <<ListedConversation("c1", RemoteTime("iso", 3))>>,
    <<ListedConversation("c1", Absent), ListedConversation("c2", RemoteTime("short", 0))>>,
    <<ListedConversation(None, RemoteTime("iso", 1))>> }

\* the detail of a conversation as the remote sends it
Detail(id, created, updated, assigneeType) ==
  [id |-> id, uuid |-> None, userId |-> None, users0id |-> None, user_id |-> None,
   status |-> "new", channel_id |-> "ch", created_time |-> created,
   created_at |-> Absent, updated_time |-> Absent, updated_at |-> updated,
   assigned_to |-> [kind |-> IF assigneeType = None THEN "absent" ELSE "object",
                    id |-> IF assigneeType = None THEN None ELSE "a1",
                    type |-> assigneeType],
   custom_properties |-> None]

\* the details the remote can answer with for a listed conversation
Details(uc) ==
  { Detail(uc.id, RemoteTime("iso", 1), Absent, "agent"),
    Detail(uc.id, RemoteTime("short", 0), RemoteTime("iso", 3), "Bot"),
    Detail(uc.id, RemoteTime("iso", 0), RemoteTime("iso", 4), "agent"),
    Detail(None, Absent, Absent, None) }

\* a message of a conversation as the remote sends it
RemoteMessage(id, actorType) ==
  [id |-> id, uuid |-> None, actor_type |-> actorType,
   message_parts |-> ArrayOf(<<Part(TextHello, <<>>, <<>>, <<>>)>>), parts |-> NoParts,
   created_time |-> RemoteTime("iso", 2), created_at |-> Absent, rating |-> NoNumber]

MessageLists ==
  { <<>>,
    <<RemoteMessage("x1", "user")>>,
    <<RemoteMessage("x3", "system"), RemoteMessage("x1", "user"),
      RemoteMessage("x2", "Bot")>>,
    <<RemoteMessage("x4", "SYSTEM"), RemoteMessage("x6", "System"),
      RemoteMessage("x5", None)>> }

\* a faulty variant: the comparison without toUpperCase()
IsNotSystemExactCase(m) == OrElse(m.actor_type, "") # "SYSTEM"

\* (m.actor_type || '').toUpperCase() !== 'SYSTEM'
IsNotSystem(m) == ToUpperCase(OrElse(m.actor_type, "")) # "SYSTEM"

\* (m.actor_type || '').toUpperCase() === 'BOT'
IsBot(m) == ToUpperCase(OrElse(m.actor_type, "")) = "BOT"

\* (convoDetail?.assigned_to?.type || '').toUpperCase() === 'BOT'
AssignedToBot(detail) == ToUpperCase(OrElse(detail.assigned_to.type, "")) = "BOT"

\* convoDetail.id || uc.id || convoDetail.uuid || uc.uuid
ConvoId(detail, uc) ==
  OrElse(detail.id, OrElse(uc.id, OrElse(detail.uuid, OrElse(uc.uuid, None))))

\* createdIso and updatedIso of the window test
CreatedIso(detail, uc) ==
  OrElseTime(detail.created_time, OrElseTime(detail.created_at,
             OrElseTime(uc.created_time, uc.created_at)))

UpdatedIso(detail, uc) ==
  OrElseTime(detail.updated_time, OrElseTime(detail.updated_at,
             OrElseTime(uc.updated_time, OrElseTime(uc.updated_at, CreatedIso(detail, uc)))))

\* a faulty variant: no conversation is skipped for its times
SkipsOutOfWindowNever(detail, uc, w) == FALSE

\* !createdInWindow && !updatedInWindow
SkipsOutOfWindow(detail, uc, w) ==
  ~InWindow(CreatedIso(detail, uc), w) /\ ~InWindow(UpdatedIso(detail, uc), w)

\* a faulty variant: no conversation is skipped for want of a bot
SkipsNoBotNever(detail, nonSystem) == FALSE

\* botMessages.length === 0 && the conversation is not assigned to a bot
SkipsNoBot(detail, nonSystem) ==
  SelectSeq(nonSystem, IsBot) = <<>> /\ ~AssignedToBot(detail)

\* for (const m of nonSystemMessages) await upsertMessage(m, convoId)
RECURSIVE UpsertMessages(_, _, _, _)
UpsertMessages(table, msgs, convoId, t) ==
  IF msgs = <<>> THEN table
  ELSE UpsertMessages(Upsert(table, MessageRow(msgs[1], convoId, t)), Tail(msgs), convoId, t)

\* what the remote and the store answer while one conversation is processed:
\* the detail fetch throws; or the conversation upsert fails; or the message
\* fetch throws; or the upsert of message number failAt fails (0: none does)
Scenario(detailThrows, detail, convDbError, messagesThrow, messages, failAt) ==
  [detailThrows |-> detailThrows, detail |-> detail, convDbError |-> convDbError,
   messagesThrow |-> messagesThrow, messages |-> messages, failAt |-> failAt]

Scenarios(uc) ==
  LET any == CHOOSE d \in Details(uc) : TRUE IN
    {Scenario(TRUE, any, FALSE, FALSE, <<>>, 0)}
    \cup {Scenario(FALSE, d, TRUE, FALSE, <<>>, 0) : d \in Details(uc)}
    \cup {Scenario(FALSE, d, FALSE, TRUE, <<>>, 0) : d \in Details(uc)}
    \cup UNION {UNION {{Scenario(FALSE, d, FALSE, FALSE, ms, k) : k \in 0..Len(ms)}
                       : ms \in MessageLists} : d \in Details(uc)}

\* a faulty variant: a failed conversation ends the loop
AbortOnConversationFailure(rest) == <<>>

\* catch of the conversation loop: the loop goes on with the conversations left
CatchConversationFailure(rest) == rest

\* the body of the conversation loop for the listed conversation uc of user
ConversationStep(user, uc, w, sc, convTable, msgTable, t) ==
  LET convoId   == ConvoId(sc.detail, uc)
      nonSystem == SelectSeq(sc.messages, IsNotSystem)
      toWrite   == IF sc.failAt = 0 THEN nonSystem
                   ELSE SubSeq(nonSystem, 1, Min(sc.failAt, Len(nonSystem) + 1) - 1)
      stored    == Upsert(convTable,
                          ConversationRow([sc.detail EXCEPT !.userId = user.id], convoId, t))
      base      == [outcome |-> "failed", convoId |-> convoId, detail |-> <<sc.detail>>,
                    uc |-> <<uc>>, upserted |-> FALSE, fetchedMessages |-> FALSE,
                    fetched |-> <<>>, written |-> <<>>, conv |-> convTable,
                    msg |-> msgTable]
  IN  IF sc.detailThrows THEN [base EXCEPT !.convoId = None, !.detail = <<>>]
      ELSE IF convoId = None THEN [base EXCEPT !.outcome = "noId"]
      ELSE IF SkipsOutOfWindow(sc.detail, uc, w) THEN [base EXCEPT !.outcome = "outOfWindow"]
      ELSE IF sc.convDbError THEN base
      ELSE IF sc.messagesThrow
        THEN [base EXCEPT !.conv = stored, !.upserted = TRUE, !.fetchedMessages = TRUE]
      ELSE IF SkipsNoBot(sc.detail, nonSystem)
        THEN [base EXCEPT !.outcome = "noBot", !.conv = stored, !.upserted = TRUE,
                          !.fetchedMessages = TRUE, !.fetched = sc.messages]
      ELSE [base EXCEPT !.outcome = IF sc.failAt \in 1..Len(nonSystem)
                                    THEN "failed" ELSE "stored",
                        !.conv = stored, !.upserted = TRUE, !.fetchedMessages = TRUE,
                        !.fetched = sc.messages, !.written = toWrite,
                        !.msg = UpsertMessages(msgTable, toWrite, convoId, t)]

\* a faulty variant: main reports success whatever happened
ExitStatusAlwaysZero(failed) == 0

\* main: process.exit(0) after fetchAndStore, process.exit(1) in its catch
ExitStatus(failed) == IF failed THEN 1 ELSE 0

\* fetchAndStore starts: the window is fixed and the users updated in it are
\* listed; a failure of that listing is not caught by fetchAndStore and ends
\* the process in main with status 1
StartSync ==
  /\ syPc = "idle"
  /\ window' = [start |-> clock - LOOKBACK_HOURS, end |-> clock]
  /\ \E usersThrow \in BOOLEAN, users \in UserLists :
       IF usersThrow
       THEN /\ syPc' = "exited"
            /\ exitStatus' = ExitStatus(TRUE)
            /\ userQueue' = <<>>
            /\ progress' = NoProgress
       ELSE /\ syPc' = "users"
            /\ exitStatus' = NoNumber
            /\ userQueue' = users
            /\ progress' = [NoProgress EXCEPT !.usersListed = Len(users)]
  /\ summary' = NoSummary
  /\ lastConv' = NoConv
  /\ ucQueue' = <<>>
  /\ UNCHANGED <<analysisVars, syncVars, pageVars, fetchVars>>
  /\ UNCHANGED reconVars
  /\ UNCHANGED backfillVars
  /\ UNCHANGED configVars
  /\ UNCHANGED historyVars
  /\ UNCHANGED overlapVars
  /\ UNCHANGED raceVars
  /\ UNCHANGED limiterVars

\* the body of the user loop up to the conversation loop: upsert the user,
\* list their conversations; a failure is caught and the next user is taken
NextUser ==
  /\ syPc = "users"
  /\ userQueue # <<>>
  /\ \E dbError \in BOOLEAN, listThrows \in BOOLEAN, list \in ConversationLists :
       LET user   == Head(userQueue)
           failed == dbError \/ listThrows
           convs  == IF failed THEN <<>> ELSE list
       IN  /\ User' = IF dbError THEN User ELSE Upsert(User, UserRow(user, clock))
           /\ summary' = IF dbError THEN summary
                         ELSE [summary EXCEPT !.usersUpserted = @ + 1]
           /\ progress' = [progress EXCEPT !.usersVisited = @ + 1,
                                           !.convsListed = @ + Len(convs),
                                           !.caught = @ + IF failed THEN 1 ELSE 0]
           /\ ucQueue' = convs
           /\ userQueue' = IF convs = <<>> THEN Tail(userQueue) ELSE userQueue
           /\ syPc' = IF convs = <<>> THEN "users" ELSE "convs"
  /\ lastConv' = NoConv
  /\ UNCHANGED <<window, exitStatus>>
  /\ UNCHANGED <<analysisVars, Conversation, clock, lastUpsert, nUpserts, pageVars, fetchVars>>
  /\ UNCHANGED reconVars
  /\ UNCHANGED backfillVars
  /\ UNCHANGED configVars
  /\ UNCHANGED historyVars
  /\ UNCHANGED overlapVars
  /\ UNCHANGED raceVars
  /\ UNCHANGED limiterVars

\* the body of the conversation loop for the next conversation of the user
ProcessConversation ==
  /\ syPc = "convs"
  /\ \E sc \in Scenarios(Head(ucQueue)) :
       LET r    == ConversationStep(Head(userQueue), Head(ucQueue), window, sc,
                                    Conversation, Message, clock)
           rest == IF r.outcome = "failed" THEN CatchConversationFailure(Tail(ucQueue))
                   ELSE Tail(ucQueue)
       IN  /\ Conversation' = r.conv
           /\ Message' = r.msg
           /\ lastConv' = [outcome |-> r.outcome, convoId |-> r.convoId,
                           detail |-> r.detail, uc |-> r.uc, upserted |-> r.upserted,
                           fetchedMessages |-> r.fetchedMessages,
                           fetched |-> r.fetched, written |-> r.written]
           /\ summary' =
                [summary EXCEPT
                   !.convsUpserted = @ + IF r.upserted THEN 1 ELSE 0,
                   !.msgsUpserted = @ + Len(r.written),
                   !.convsSkippedNotInWindow = @ + IF r.outcome = "outOfWindow" THEN 1 ELSE 0,
                   !.convsSkippedNoBot = @ + IF r.outcome = "noBot" THEN 1 ELSE 0]
           /\ progress' = [progress EXCEPT !.convsVisited = @ + 1,
                                           !.caught = @ + IF r.outcome = "failed" THEN 1 ELSE 0]
           /\ ucQueue' = rest
           /\ userQueue' = IF rest = <<>> THEN Tail(userQueue) ELSE userQueue
           /\ syPc' = IF rest = <<>> THEN "users" ELSE "convs"
  /\ UNCHANGED <<window, exitStatus>>
  /\ UNCHANGED <<MessageAnalysis, AnalysisFailures, viewFiltersShort, pc, retryQueue,
                 firstQueue, processed, now, runs, handInserts, lastCall>>
  /\ UNCHANGED <<User, clock, lastUpsert, nUpserts, pageVars, fetchVars>>
  /\ UNCHANGED reconVars
  /\ UNCHANGED backfillVars
  /\ UNCHANGED configVars
  /\ UNCHANGED historyVars
  /\ UNCHANGED overlapVars
  /\ UNCHANGED raceVars
  /\ UNCHANGED limiterVars

\* the summary is logged and main ends the process with status 0
FinishSync ==
  /\ syPc = "users"
  /\ userQueue = <<>>
  /\ syPc' = "exited"
  /\ exitStatus' = ExitStatus(FALSE)
  /\ lastConv' = NoConv
  /\ UNCHANGED <<window, userQueue, ucQueue, summary, progress>>
  /\ UNCHANGED <<analysisVars, syncVars, pageVars, fetchVars>>
  /\ UNCHANGED reconVars
  /\ UNCHANGED backfillVars
  /\ UNCHANGED configVars
  /\ UNCHANGED historyVars
  /\ UNCHANGED overlapVars
  /\ UNCHANGED raceVars
  /\ UNCHANGED limiterVars

\* the store an earlier run left
EarlierUsers == {UserRow(CHOOSE u \in RemoteUsers : u.id = "u2", 0)}

EarlierConversations ==
  {ConversationRow(Detail("c1", RemoteTime("iso", 0), Absent, None), "c1", 0)}

EarlierMessages == {MessageRow(RemoteMessage("x1", "user"), "c1", 0)}

InitSync ==
  /\ \/ User = {} /\ Conversation = {} /\ Message = {}
     \/ User = EarlierUsers /\ Conversation = EarlierConversations
        /\ Message = EarlierMessages
  /\ MessageAnalysis = {}
  /\ AnalysisFailures = {}
  /\ viewFiltersShort = FALSE
  /\ pc = "idle"
  /\ retryQueue = <<>>
  /\ firstQueue = <<>>
  /\ processed = 0
  /\ now = 0
  /\ runs = 0
  /\ handInserts = 0
  /\ lastCall = NoCall
  /\ clock = LOOKBACK_HOURS + 1
  /\ lastUpsert = NoUpsert
  /\ nUpserts = 0
  /\ PageIdle
  /\ FetchIdle
  /\ RunIdle
  /\ ReconIdle
  /\ BackfillIdle
  /\ ConfigDefault
  /\ HistoryIdle
  /\ OverlapIdle
  /\ RaceIdle
  /\ LimiterIdle

NextSync ==
  \/ StartSync
  \/ NextUser
  \/ ProcessConversation
  \/ FinishSync

SpecSync == InitSync /\ [][NextSync]_vars

-----------------------------------------------------------------------------
\* Claims about the sync run

\* the step processed a conversation
ConversationProcessed == progress'.convsVisited = progress.convsVisited + 1

\* the creation time or the last-update time of the conversation processed
\* lies in [window start, now]
TimesInWindow ==
  LET created == CreatedIso(lastConv'.detail[1], lastConv'.uc[1])
      updated == UpdatedIso(lastConv'.detail[1], lastConv'.uc[1])
  IN  \/ created.fmt # "absent" /\ created.t \in window.start..window.end
      \/ updated.fmt # "absent" /\ updated.t \in window.start..window.end

\* C12: a conversation whose detail was fetched is upserted and has its
\* messages fetched exactly when its creation time or its last-update time
\* lies in the window (short of a store failure, which is caught); otherwise
\* nothing is written, no message is fetched and the out-of-window counter
\* rises by one.
C12_WindowDecides ==
  [][(ConversationProcessed /\ lastConv'.detail # <<>> /\ lastConv'.convoId # None) =>
       IF TimesInWindow
       THEN /\ lastConv'.outcome # "outOfWindow"
            /\ summary'.convsSkippedNotInWindow = summary.convsSkippedNotInWindow
            /\ \/ /\ lastConv'.upserted
                  /\ lastConv'.fetchedMessages
                  /\ \E row \in Conversation' : row.id = lastConv'.convoId
               \/ /\ lastConv'.outcome = "failed"
                  /\ ~lastConv'.upserted
                  /\ ~lastConv'.fetchedMessages
                  /\ Conversation' = Conversation
       ELSE /\ lastConv'.outcome = "outOfWindow"
            /\ ~lastConv'.upserted
            /\ ~lastConv'.fetchedMessages
            /\ Conversation' = Conversation
            /\ Message' = Message
            /\ summary'.convsSkippedNotInWindow = summary.convsSkippedNotInWindow + 1]_vars

\* C12 witness: a conversation created before the window and updated inside
\* it has been upserted and its messages fetched.
C12_Witness ==
  /\ lastConv.upserted
  /\ lastConv.fetchedMessages
  /\ CreatedIso(lastConv.detail[1], lastConv.uc[1]).t < window.start
  /\ UpdatedIso(lastConv.detail[1], lastConv.uc[1]).t \in window.start..window.end

SystemSpellings == {"system", "System", "SYSTEM"}
BotSpellings == {"bot", "Bot", "BOT"}

\* the non-system messages among those fetched for the conversation processed
NonSystemFetched(conv) ==
  {conv.fetched[i] : i \in {j \in DOMAIN conv.fetched :
                              conv.fetched[j].actor_type \notin SystemSpellings}}

\* no non-system message has the bot role and the conversation is not
\* assigned to a bot
NoBotInvolved(conv) ==
  /\ \A m \in NonSystemFetched(conv) : m.actor_type \notin BotSpellings
  /\ conv.detail[1].assigned_to.type \notin BotSpellings

\* C13: for an in-window conversation whose messages were fetched: without
\* bot involvement no message is written and the no-bot counter rises by one;
\* otherwise every non-system message fetched is upserted. A step writes
\* messages only for a conversation with bot involvement.
C13_BotFilter ==
  [][/\ (ConversationProcessed /\ Message' # Message) => ~NoBotInvolved(lastConv')
     /\ (ConversationProcessed /\ lastConv'.outcome \in {"noBot", "stored"}) =>
       IF NoBotInvolved(lastConv')
       THEN /\ lastConv'.outcome = "noBot"
            /\ Message' = Message
            /\ summary'.convsSkippedNoBot = summary.convsSkippedNoBot + 1
            /\ summary'.msgsUpserted = summary.msgsUpserted
       ELSE /\ lastConv'.outcome = "stored"
            /\ \A m \in NonSystemFetched(lastConv') :
                 MessageRow(m, lastConv'.convoId, clock) \in Message'
            /\ summary'.convsSkippedNoBot = summary.convsSkippedNoBot
            /\ summary'.msgsUpserted =
                 summary.msgsUpserted + Cardinality(NonSystemFetched(lastConv'))]_vars

\* C13 witness: the messages of a conversation without any bot message, but
\* assigned to a bot, have been written.
C13_Witness ==
  /\ lastConv.outcome = "stored"
  /\ lastConv.written # <<>>
  /\ \A m \in NonSystemFetched(lastConv) : m.actor_type \notin BotSpellings

\* C14: no step of a sync run writes a Message row whose actor role is
\* system, in whatever letter case.
C14_NoSystemMessage ==
  [][\A row \in Message' \ Message : row.actor_type \notin SystemSpellings]_vars

\* C14 witness: messages have been written for a conversation whose fetched
\* messages held system ones in lower and mixed case.
C14_Witness ==
  /\ lastConv.written # <<>>
  /\ \E i \in DOMAIN lastConv.fetched :
       lastConv.fetched[i].actor_type \in {"system", "System"}

\* C15: a failure caught while a user or a conversation is processed does not
\* end the run: every user listed and every conversation listed is visited,
\* and the run exits with status 0.
C15_FailuresAreCaught ==
  /\ progress.caught > 0 => exitStatus # 1
  /\ syPc = "users" =>
       /\ progress.usersVisited + Len(userQueue) = progress.usersListed
       /\ progress.convsVisited = progress.convsListed
  /\ syPc = "convs" =>
       /\ progress.usersVisited + Len(userQueue) - 1 = progress.usersListed
       /\ progress.convsVisited + Len(ucQueue) = progress.convsListed
  /\ (syPc = "exited" /\ progress.usersListed > 0) =>
       /\ exitStatus = 0
       /\ progress.usersVisited = progress.usersListed
       /\ progress.convsVisited = progress.convsListed

\* C15 witness: a run in which a failure was caught has gone on to upsert a
\* conversation and a second user and has exited with status 0.
C15_Witness ==
  /\ syPc = "exited"
  /\ exitStatus = 0
  /\ progress.caught >= 1
  /\ progress.usersListed = 2
  /\ summary.usersUpserted = 2
  /\ summary.convsUpserted >= 1

\* C16: a run whose failure escapes fetchAndStore exits with status 1 and
\* leaves every stored record as it was; a run that reaches its summary exits
\* with status 0.
C16_ExitStatus ==
  [][(syPc # "exited" /\ syPc' = "exited") =>
       IF syPc = "users" /\ userQueue = <<>>
       THEN exitStatus' = 0
       ELSE /\ exitStatus' = 1
            /\ User' = User
            /\ Conversation' = Conversation
            /\ Message' = Message]_vars

\* C16 witness: a run has exited with status 1 over a store that holds the
\* records of an earlier run.
C16_Witness ==
  /\ syPc = "exited"
  /\ exitStatus = 1
  /\ User = EarlierUsers
  /\ Conversation = EarlierConversations
  /\ Message = EarlierMessages

-----------------------------------------------------------------------------
\* The reconciliation: refetchUnresolvedConversations

\* JSON.stringify(convo.assigned_to || {})
JsonStringify(a) ==
  IF a.kind = "absent" THEN "{}"
  ELSE IF a.kind = "string" THEN "\"a2\""
  ELSE "{\"id\":\"a1\"}"

\* the row upsertConversation of the reconciliation builds
RefetchedRow(convo, convoId, t) ==
  [id |-> convoId,
   userid |-> OrElse(convo.userId, convo.user_id),
   status |-> OrElse(convo.status, ""),
   channel_id |-> OrElse(convo.channel_id, ""),
   created_time |->
     ToISOString(OrElseTime(convo.created_time, OrElseTime(convo.created_at, DateNow(t)))),
   updated_time |->
     ToISOString(OrElseTime(convo.updated_time, OrElseTime(convo.updated_at, DateNow(t)))),
   assigned_to |-> JsonStringify(convo.assigned_to),
   custom_properties |-> OrElse(convo.custom_properties, "{}")]

\* .order('updated_time', { ascending: true })
RECURSIVE OrderByUpdatedTime(_)
OrderByUpdatedTime(S) ==
  IF S = {} THEN <<>>
  ELSE LET first == CHOOSE r \in S : \A q \in S : r.updated_time.t <= q.updated_time.t
       IN  <<first>> \o OrderByUpdatedTime(S \ {first})

\* the stored conversations that are not resolved and younger than 30 days
UnresolvedConvos(table, t) ==
  OrderByUpdatedTime({r \in table : /\ r.status # "resolved"
                                    /\ r.created_time.t > t - MAX_AGE_DAYS * HOURS_PER_DAY})

\* freshConvo.updated_time || freshConvo.updated_at
FreshUpdatedTime(fresh) == OrElseTime(fresh.updated_time, fresh.updated_at)

\* freshStatus !== dbConvo.status
StatusChanged(fresh, dbConvo) == OrElse(fresh.status, "") # dbConvo.status

\* a faulty variant: the timestamps are compared as text
TimeChangedByText(fresh, dbConvo) ==
  /\ FreshUpdatedTime(fresh).fmt # "absent"
  /\ FreshUpdatedTime(fresh) # dbConvo.updated_time

\* freshUpdatedTime && new Date(freshUpdatedTime).getTime() !==
\* new Date(dbConvo.updated_time).getTime()
TimeChanged(fresh, dbConvo) ==
  /\ FreshUpdatedTime(fresh).fmt # "absent"
  /\ FreshUpdatedTime(fresh).t # dbConvo.updated_time.t

\* a Conversation row as an earlier sync run stored it
StoredConversation(id, status, created, updated) ==
  [id |-> id, userid |-> "u1", status |-> status, channel_id |-> "ch",
   created_time |-> ToISOString(RemoteTime("iso", created)),
   updated_time |-> ToISOString(RemoteTime("iso", updated)),
   assigned_to |-> "", custom_properties |-> "{}"]

\* the store the reconciliation finds, 722 hours after time 0: three
\* conversations to check, a resolved one and one older than 30 days
StoredConversations ==
  { StoredConversation("c1", "new", 721, 721),
    StoredConversation("c2", "assigned", 3, 4),
    StoredConversation("c3", "new", 5, 5),
    StoredConversation("c4", "resolved", 720, 720),
    StoredConversation("c5", "new", 1, 1) }

\* the detail the remote can answer with for a stored conversation
FreshConvo(dbConvo, status, updated) ==
  [Detail(dbConvo.id, RemoteTime("iso", dbConvo.created_time.t), updated, "agent")
     EXCEPT !.status = status]

FreshConvos(dbConvo) ==
  { FreshConvo(dbConvo, dbConvo.status, RemoteTime("short", dbConvo.updated_time.t)),
    FreshConvo(dbConvo, dbConvo.status, Absent),
    FreshConvo(dbConvo, dbConvo.status, RemoteTime("iso", dbConvo.updated_time.t + 1)),
    FreshConvo(dbConvo, "resolved", RemoteTime("iso", dbConvo.updated_time.t + 1)),
    FreshConvo(dbConvo, "resolved", RemoteTime("short", dbConvo.updated_time.t)),
    FreshConvo(dbConvo, None, Absent) }

\* the stored conversations to check are selected; an error of the select
\* ends the function with an empty summary
StartReconcile ==
  /\ rcPc = "idle"
  /\ \E selectError \in BOOLEAN :
       LET found == IF selectError THEN <<>> ELSE UnresolvedConvos(Conversation, clock)
       IN  /\ rcQueue' = found
           /\ rcPc' = IF found = <<>> THEN "returned" ELSE "loop"
  /\ rcSummary' = NoRefetchSummary
  /\ lastRefetch' = NoRefetch
  /\ UNCHANGED <<analysisVars, syncVars, pageVars, fetchVars, runVars>>
  /\ UNCHANGED backfillVars
  /\ UNCHANGED configVars
  /\ UNCHANGED historyVars
  /\ UNCHANGED overlapVars
  /\ UNCHANGED raceVars
  /\ UNCHANGED limiterVars

\* one iteration of the loop over unresolvedConvos
RefetchNext ==
  /\ rcPc = "loop"
  /\ rcQueue # <<>>
  /\ \E fetchThrows \in BOOLEAN, fresh \in FreshConvos(Head(rcQueue)), dbError \in BOOLEAN :
       LET dbConvo == Head(rcQueue)
           changed == StatusChanged(fresh, dbConvo) \/ TimeChanged(fresh, dbConvo)
           written == ~fetchThrows /\ changed /\ ~dbError
           failed  == fetchThrows \/ (changed /\ dbError)
       IN  /\ Conversation' =
                IF written
                THEN Upsert(Conversation,
                            RefetchedRow([fresh EXCEPT !.userId = dbConvo.userid],
                                         dbConvo.id, clock))
                ELSE Conversation
           /\ rcSummary' =
                [checked  |-> rcSummary.checked + IF fetchThrows THEN 0 ELSE 1,
                 updated  |-> rcSummary.updated + IF written THEN 1 ELSE 0,
                 resolved |-> rcSummary.resolved +
                              IF written /\ OrElse(fresh.status, "") = "resolved"
                              THEN 1 ELSE 0,
                 errors   |-> rcSummary.errors + IF failed THEN 1 ELSE 0]
           /\ lastRefetch' =
                [outcome |-> IF failed THEN "failed"
                             ELSE IF written THEN "upserted" ELSE "unchanged",
                 dbConvo |-> <<dbConvo>>,
                 fresh |-> IF fetchThrows THEN <<>> ELSE <<fresh>>]
  /\ rcQueue' = Tail(rcQueue)
  /\ rcPc' = IF Tail(rcQueue) = <<>> THEN "returned" ELSE "loop"
  /\ UNCHANGED <<Message, MessageAnalysis, AnalysisFailures, viewFiltersShort, pc,
                 retryQueue, firstQueue, processed, now, runs, handInserts, lastCall>>
  /\ UNCHANGED <<User, clock, lastUpsert, nUpserts, pageVars, fetchVars, runVars>>
  /\ UNCHANGED backfillVars
  /\ UNCHANGED configVars
  /\ UNCHANGED historyVars
  /\ UNCHANGED overlapVars
  /\ UNCHANGED raceVars
  /\ UNCHANGED limiterVars

\* main: the summary was logged, the process exits with status 0
FinishReconcile ==
  /\ rcPc = "returned"
  /\ rcPc' = "exited"
  /\ lastRefetch' = NoRefetch
  /\ UNCHANGED <<rcQueue, rcSummary>>
  /\ UNCHANGED <<analysisVars, syncVars, pageVars, fetchVars, runVars>>
  /\ UNCHANGED backfillVars
  /\ UNCHANGED configVars
  /\ UNCHANGED historyVars
  /\ UNCHANGED overlapVars
  /\ UNCHANGED raceVars
  /\ UNCHANGED limiterVars

InitReconcile ==
  /\ Message = {}
  /\ MessageAnalysis = {}
  /\ AnalysisFailures = {}
  /\ viewFiltersShort = FALSE
  /\ pc = "idle"
  /\ retryQueue = <<>>
  /\ firstQueue = <<>>
  /\ processed = 0
  /\ now = 0
  /\ runs = 0
  /\ handInserts = 0
  /\ lastCall = NoCall
  /\ User = {}
  /\ Conversation \in {{}, StoredConversations}
  /\ clock = MAX_AGE_DAYS * HOURS_PER_DAY + 2
  /\ lastUpsert = NoUpsert
  /\ nUpserts = 0
  /\ PageIdle
  /\ FetchIdle
  /\ RunIdle
  /\ ReconIdle
  /\ BackfillIdle
  /\ ConfigDefault
  /\ HistoryIdle
  /\ OverlapIdle
  /\ RaceIdle
  /\ LimiterIdle

NextReconcile ==
  \/ StartReconcile
  \/ RefetchNext
  \/ FinishReconcile

SpecReconcile == InitReconcile /\ [][NextReconcile]_vars

-----------------------------------------------------------------------------
\* Claims about the reconciliation

\* the step checked a stored conversation and fetched its remote detail
Refetched == rcPc = "loop" /\ Len(rcQueue') < Len(rcQueue) /\ lastRefetch'.fresh # <<>>

\* the remote status, or the instant of the remote updated-timestamp, differs
\* from the stored value
RemoteDiffers ==
  LET db    == lastRefetch'.dbConvo[1]
      fresh == lastRefetch'.fresh[1]
      status == IF fresh.status = None THEN "" ELSE fresh.status
      time   == IF fresh.updated_time.fmt # "absent" THEN fresh.updated_time
                ELSE fresh.updated_at
  IN  status # db.status \/ (time.fmt # "absent" /\ time.t # db.updated_time.t)

\* C17: a stored conversation whose remote status or updated-timestamp
\* differs from the stored value is upserted once, with the remote status,
\* and counted as updated, and as resolved when the remote status is
\* "resolved"; a conversation that does not differ is not written.
C17_RefreshOnChange ==
  [][Refetched =>
       LET db    == lastRefetch'.dbConvo[1]
           fresh == lastRefetch'.fresh[1]
           rows  == {r \in Conversation' : r.id = db.id}
       IN  IF lastRefetch'.outcome = "failed"
           THEN Conversation' = Conversation /\ rcSummary'.updated = rcSummary.updated
                /\ rcSummary'.resolved = rcSummary.resolved
           ELSE IF RemoteDiffers
           THEN /\ lastRefetch'.outcome = "upserted"
                /\ Cardinality(rows) = 1
                /\ \A r \in rows : r.status = IF fresh.status = None THEN "" ELSE fresh.status
                /\ {r \in Conversation' : r.id # db.id} = {r \in Conversation : r.id # db.id}
                /\ rcSummary'.updated = rcSummary.updated + 1
                /\ rcSummary'.resolved =
                     rcSummary.resolved + IF fresh.status = "resolved" THEN 1 ELSE 0
           ELSE /\ lastRefetch'.outcome = "unchanged"
                /\ Conversation' = Conversation
                /\ rcSummary'.updated = rcSummary.updated
                /\ rcSummary'.resolved = rcSummary.resolved]_vars

\* C17 witness: a stored conversation with status "new" whose remote is now
\* resolved with a newer updated-timestamp has been upserted and counted.
C17_Witness ==
  /\ lastRefetch.outcome = "upserted"
  /\ lastRefetch.dbConvo[1].status = "new"
  /\ lastRefetch.fresh[1].status = "resolved"
  /\ lastRefetch.fresh[1].updated_at.t > lastRefetch.dbConvo[1].updated_time.t
  /\ rcSummary.resolved >= 1
  /\ \E r \in Conversation : r.id = lastRefetch.dbConvo[1].id /\ r.status = "resolved"

-----------------------------------------------------------------------------
\* The backfill: backfillAllMessages and backfillConversationMessages

\* the row upsertMessage of the backfill builds
BackfillMessageRow(msg, conversationId, t) == MessageRow(msg, conversationId, t)

\* getExistingMessageIds(conversationId); a store error gives the empty set
GetExistingMessageIds(table, conversationId, dbError) ==
  IF dbError THEN {} ELSE {r.id : r \in {q \in table : q.conversationid = conversationId}}

\* const messageId = msg.id || msg.uuid
MessageId(msg) == OrElse(msg.id, msg.uuid)

\* existingMessageIds.has(messageId)
Has(existing, msg) ==
  /\ MessageId(msg) \notin {None, ""}
  /\ RemoteKey(MessageId(msg)) \in existing

\* upsertMessage refuses a message of the system
IsSystemMessage(msg) == msg.actor_type = "system"

\* the loop over the fetched messages; the upsert of message number failAt
\* meets a store error (0: none does)
RECURSIVE BackfillLoop(_, _, _, _, _, _)
BackfillLoop(acc, msgs, existing, convId, t, failAt) ==
  IF msgs = <<>> THEN acc
  ELSE LET msg == Head(msgs)
           next == IF Has(existing, msg)
                   THEN [acc EXCEPT !.skippedMessages = @ + 1]
                   ELSE IF IsSystemMessage(msg) \/ failAt = 1
                   THEN [acc EXCEPT !.failed = @ + 1]
                   ELSE [acc EXCEPT !.table = Upsert(@, BackfillMessageRow(msg, convId, t)),
                                    !.newMessages = @ + 1]
       IN  BackfillLoop(next, Tail(msgs), existing, convId, t,
                        IF Has(existing, msg) \/ IsSystemMessage(msg) \/ failAt = 0
                        THEN failAt ELSE failAt - 1)

\* the opposite order: newest first
RECURSIVE OrderByCreatedTimeDesc(_)
OrderByCreatedTimeDesc(S) ==
  IF S = {} THEN <<>>
  ELSE LET first == CHOOSE r \in S : \A q \in S : r.created_time.t >= q.created_time.t
       IN  <<first>> \o OrderByCreatedTimeDesc(S \ {first})

\* orderBy: { created_time: 'asc' }
RECURSIVE OrderByCreatedTime(_)
OrderByCreatedTime(S) ==
  IF S = {} THEN <<>>
  ELSE LET first == CHOOSE r \in S : \A q \in S : r.created_time.t <= q.created_time.t
       IN  <<first>> \o OrderByCreatedTime(S \ {first})

\* a message of the remote, with or without an id and a creation time
BackfillMessage(id, actorType, created) ==
  [RemoteMessage(id, actorType) EXCEPT !.created_time = created]

BackfillLists ==
  { <<>>,
    <<BackfillMessage("x1", "user", RemoteTime("iso", 0))>>,
    <<BackfillMessage("x1", "user", RemoteTime("iso", 0)),
      BackfillMessage("x2", "agent", RemoteTime("iso", 0)),
      BackfillMessage("x3", "system", RemoteTime("iso", 0))>>,
    <<BackfillMessage("x1", "user", RemoteTime("iso", 0)),
      BackfillMessage(None, "user", RemoteTime("short", 0))>>,
    <<BackfillMessage(None, "agent", Absent)>>,
    <<BackfillMessage("x1", "user", RemoteTime("iso", 0)),
      BackfillMessage("x4", "SYSTEM", RemoteTime("iso", 0))>> }

\* the values of BATCH_SIZE the script is started with
BatchSizes == {0, 1, DEFAULT_BATCH_SIZE}

BackfillConversations ==
  {StoredConversation("c1", "new", 0, 0), StoredConversation("c2", "resolved", 1, 1)}

\* backfillAllMessages up to the loop; time has passed since an earlier run
StartBackfill ==
  /\ bfPc \in {"idle", "exit0", "exit1"}
  /\ bfRun < MaxBackfillRuns
  /\ bfRun' = bfRun + 1
  /\ clock' = clock + 1
  /\ \E dbError \in BOOLEAN :
       LET conversations == OrderByCreatedTime(Conversation)
       IN  /\ bfConversations' = IF dbError THEN <<>> ELSE conversations
           /\ bfPc' = IF dbError THEN "exit1" ELSE "loop"
           /\ bfStats' = [NoStats EXCEPT !.totalConversations =
                                           IF dbError THEN 0 ELSE Len(conversations)]
  /\ lastBackfill' = NoBackfill
  /\ bfQueue' = <<>>
  /\ bfI' = 0
  /\ bfBatches' = 0
  /\ UNCHANGED <<bfRemote, bfDone, bfBatchSize>>
  /\ UNCHANGED <<analysisVars, User, Conversation, lastUpsert, nUpserts>>
  /\ UNCHANGED <<pageVars, fetchVars, runVars, reconVars>>
  /\ UNCHANGED configVars
  /\ UNCHANGED historyVars
  /\ UNCHANGED overlapVars
  /\ UNCHANGED raceVars
  /\ UNCHANGED limiterVars

\* conversations.slice(i, i + BATCH_SIZE)
Slice(list, from, to) ==
  SubSeq(list, from + 1, IF to < Len(list) THEN to ELSE Len(list))

\* one iteration of the loop over the batches begins: the batch is cut out of
\* the list; i += BATCH_SIZE, done when the batch has been processed, is
\* recorded at once, nothing reads i in between
TakeBatch ==
  /\ bfPc = "loop"
  /\ bfQueue = <<>>
  /\ bfI < Len(bfConversations)
  /\ bfBatches < MaxBatches
  /\ bfQueue' = Slice(bfConversations, bfI, bfI + bfBatchSize)
  /\ bfI' = bfI + bfBatchSize
  /\ bfBatches' = bfBatches + 1
  /\ UNCHANGED <<bfPc, bfRemote, bfRun, bfStats, lastBackfill, bfDone, bfBatchSize,
                 bfConversations>>
  /\ UNCHANGED <<analysisVars, syncVars, pageVars, fetchVars, runVars, reconVars>>
  /\ UNCHANGED configVars
  /\ UNCHANGED historyVars
  /\ UNCHANGED overlapVars
  /\ UNCHANGED raceVars
  /\ UNCHANGED limiterVars

\* backfillConversationMessages(conversation, stats)
BackfillConversation ==
  /\ bfPc = "loop"
  /\ bfQueue # <<>>
  /\ \E existingFails \in BOOLEAN, paginateThrows \in BOOLEAN,
        failAt \in 0..Len(bfRemote[Head(bfQueue).id]) :
       LET convId   == Head(bfQueue).id
           existing == GetExistingMessageIds(Message, convId, existingFails)
           messages == bfRemote[convId]
           result   == BackfillLoop([table |-> Message, newMessages |-> 0,
                                     skippedMessages |-> 0, failed |-> 0],
                                    messages, existing, convId, clock, failAt)
           systems  == Len(SelectSeq(messages, IsSystemMessage))
       IN  /\ Message' = IF paginateThrows THEN Message ELSE result.table
           /\ bfStats' =
                IF paginateThrows
                THEN [bfStats EXCEPT !.conversationsFailed = @ + 1]
                ELSE [bfStats EXCEPT !.conversationsProcessed = @ + 1,
                                     !.totalMessagesInserted = @ + result.newMessages,
                                     !.totalMessagesFailed = @ + result.failed]
           /\ lastBackfill' =
                IF paginateThrows
                THEN [NoBackfill EXCEPT !.outcome = "failed", !.convId = convId,
                                        !.existing = existing, !.before = Message]
                ELSE [outcome |-> "processed", convId |-> convId, messages |-> messages,
                      existing |-> existing, newMessages |-> result.newMessages,
                      skippedMessages |-> result.skippedMessages, before |-> Message]
           /\ bfDone' = IF ~paginateThrows /\ ~existingFails /\ result.failed = systems
                        THEN bfDone \cup {convId} ELSE bfDone \ {convId}
  /\ bfQueue' = Tail(bfQueue)
  /\ UNCHANGED <<bfPc, bfRemote, bfRun, bfBatchSize, bfConversations, bfI, bfBatches>>
  /\ UNCHANGED <<MessageAnalysis, AnalysisFailures, viewFiltersShort, pc, retryQueue,
                 firstQueue, processed, now, runs, handInserts, lastCall>>
  /\ UNCHANGED <<User, Conversation, clock, lastUpsert, nUpserts>>
  /\ UNCHANGED <<pageVars, fetchVars, runVars, reconVars>>
  /\ UNCHANGED configVars
  /\ UNCHANGED historyVars
  /\ UNCHANGED overlapVars
  /\ UNCHANGED raceVars
  /\ UNCHANGED limiterVars

\* the summary is logged and main exits with status 0
FinishBackfill ==
  /\ bfPc = "loop"
  /\ bfQueue = <<>>
  /\ bfI >= Len(bfConversations)
  /\ bfPc' = "exit0"
  /\ UNCHANGED <<bfQueue, bfRemote, bfRun, bfStats, lastBackfill, bfDone, bfBatchSize,
                 bfConversations, bfI, bfBatches>>
  /\ UNCHANGED <<analysisVars, syncVars, pageVars, fetchVars, runVars, reconVars>>
  /\ UNCHANGED configVars
  /\ UNCHANGED historyVars
  /\ UNCHANGED overlapVars
  /\ UNCHANGED raceVars
  /\ UNCHANGED limiterVars

InitBackfill ==
  /\ Message \in {{}, {BackfillMessageRow(BackfillMessage("x1", "user", RemoteTime("iso", 0)),
                                          "c1", 0)}}
  /\ MessageAnalysis = {}
  /\ AnalysisFailures = {}
  /\ viewFiltersShort = FALSE
  /\ pc = "idle"
  /\ retryQueue = <<>>
  /\ firstQueue = <<>>
  /\ processed = 0
  /\ now = 0
  /\ runs = 0
  /\ handInserts = 0
  /\ lastCall = NoCall
  /\ User = {}
  /\ Conversation \in {{}, BackfillConversations}
  /\ clock = 0
  /\ lastUpsert = NoUpsert
  /\ nUpserts = 0
  /\ PageIdle
  /\ FetchIdle
  /\ RunIdle
  /\ ReconIdle
  /\ bfPc = "idle"
  /\ bfQueue = <<>>
  /\ bfRemote \in [{"c1", "c2"} -> BackfillLists]
  /\ bfRun = 0
  /\ bfStats = NoStats
  /\ lastBackfill = NoBackfill
  /\ bfDone = {}
  /\ bfBatchSize \in BatchSizes
  /\ bfConversations = <<>>
  /\ bfI = 0
  /\ bfBatches = 0
  /\ ConfigDefault
  /\ HistoryIdle
  /\ OverlapIdle
  /\ RaceIdle
  /\ LimiterIdle

NextBackfill ==
  \/ StartBackfill
  \/ TakeBatch
  \/ BackfillConversation
  \/ FinishBackfill

SpecBackfill == InitBackfill /\ [][NextBackfill]_vars

-----------------------------------------------------------------------------
\* Claims about the backfill

\* the step backfills, without any failure, a conversation that the run
\* before backfilled without any failure; the remote has not changed
SecondBackfill ==
  /\ bfPc = "loop"
  /\ Len(bfQueue') < Len(bfQueue)
  /\ Head(bfQueue).id \in bfDone
  /\ Head(bfQueue).id \in bfDone'

\* C18: the backfill upserts only messages whose id is not yet stored for the
\* conversation: a second run over an unchanged remote inserts nothing, skips
\* every message that is stored and leaves no duplicate row.
C18_SecondRunInsertsNothing ==
  [][SecondBackfill =>
       /\ lastBackfill'.newMessages = 0
       /\ lastBackfill'.skippedMessages =
            Len(SelectSeq(lastBackfill'.messages, LAMBDA m : ~IsSystemMessage(m)))
       /\ Message' = Message]_vars

-----------------------------------------------------------------------------
\* Claims about the stored classification

\* the tag the classifier is told to give to each category
TagOfCategory ==
  [c \in {"kyc", "app_related", "payment", "others", "price_inquiry", "hub_inquiry",
          "offer_inquiry", "bike_inquiry", "bike_not_moving", "battery_problem"} |->
     IF c \in {"kyc", "app_related", "payment", "others"} THEN "cs"
     ELSE IF c \in {"bike_not_moving", "battery_problem"} THEN "escalated"
     ELSE "bot"]

\* C19: every MessageAnalysis row carries the tag of the fixed table for its
\* category, whatever tag the classifier returned.
C19_TagFollowsCategory ==
  \A a \in MessageAnalysis :
     a.category \in DOMAIN TagOfCategory => a.tag = TagOfCategory[a.category]

\* the Message rows of the messages the last classifier call submitted
Submitted == {m \in Message : m.id \in Range(lastCall.sent)}

\* C20: the first-time pass submits a message only if its actor is the end
\* user, its content is not empty, it has no MessageAnalysis row, and it has
\* more than 2 words and more than 10 characters.
C20_FirstPassSelection ==
  lastCall.pass = "first" =>
    /\ lastCall.hadAnalysis = {}
    /\ \A m \in Submitted :
         /\ m.actor_type = "user"
         /\ m.message_parts # <<>>
         /\ JsWordCount(JsTrim(m.message_parts)) > 2
         /\ Len(JsTrim(m.message_parts)) > 10

-----------------------------------------------------------------------------
\* The classification engine on conversations longer than one batch

\* message number i of the store, of conversation conv
LongMessage(conv, i) ==
  [id |-> "b" \o ToString(i), conversationid |-> conv, actor_type |-> "user",
   message_parts |-> TextBike, created_time |-> i]

\* two conversations of 21 and 30 messages: 51 messages in all
LongConversations ==
  {LongMessage("c1", i) : i \in 1..21} \cup {LongMessage("c2", i) : i \in 22..51}

\* the limits the process is started with: MAX_CONVERSATIONS=1 or the default
ConfiguredLimits == {1, MAX_CONVERSATIONS_TO_PROCESS}

InitBatch ==
  /\ Message = LongConversations
  /\ MessageAnalysis = {}
  /\ AnalysisFailures = {}
  /\ viewFiltersShort = FALSE
  /\ pc = "idle"
  /\ retryQueue = <<>>
  /\ firstQueue = <<>>
  /\ processed = 0
  /\ now = 0
  /\ runs = 0
  /\ handInserts = 0
  /\ lastCall = NoCall
  /\ SyncIdle
  /\ PageIdle
  /\ FetchIdle
  /\ RunIdle
  /\ ReconIdle
  /\ BackfillIdle
  /\ maxConversations \in ConfiguredLimits
  /\ HistoryIdle
  /\ OverlapIdle
  /\ RaceIdle
  /\ LimiterIdle

NextBatch ==
  \/ StartRun
  \/ RetryConversation
  \/ BeginFirstPass
  \/ AnalyzeNextConversation
  \/ FinishRun
  \/ Tick

SpecBatch == InitBatch /\ [][NextBatch]_vars

-----------------------------------------------------------------------------
\* Claims about the batches

\* the step makes a classifier call
Calls == runLog'.calls = runLog.calls + 1

\* the messages of the call's conversation that lie beyond the cap
BeyondCap(call) ==
  {call.batch[i] : i \in (MAX_MESSAGES_PER_BATCH + 1)..Len(call.batch)}

\* the messages a first-time selection would take
SelectedIds ==
  UNION {{m.id : m \in Range(e.messages)} : e \in Range(FetchMessagesForAnalysis(FALSE))}

\* after a call, the messages beyond its cap that have no analysis are taken
\* by the next first-time selection
StaysSelectable ==
  LET waiting == {id \in BeyondCap(lastCall) : \A r \in MessageAnalysis : r.message_id # id}
  IN  waiting = {} \/ waiting \subseteq SelectedIds

\* the call carries the first 20 messages of one conversation and stores no
\* analysis for the messages beyond the cap
CapOfOneCall ==
  /\ Len(lastCall'.sent) <= MAX_MESSAGES_PER_BATCH
  /\ lastCall'.sent = SubSeq(lastCall'.batch, 1, Len(lastCall'.sent))
  /\ Len(lastCall'.batch) > MAX_MESSAGES_PER_BATCH
       => Len(lastCall'.sent) = MAX_MESSAGES_PER_BATCH
  /\ \A m \in Message : m.id \in Range(lastCall'.batch) => m.conversationid = lastCall'.conv
  /\ \A id \in BeyondCap(lastCall') :
       {r \in MessageAnalysis' : r.message_id = id} =
         {r \in MessageAnalysis : r.message_id = id}

LedgerRows(table, id) == {r \in table : r.message_id = id}

Pulled == UNION {Range(e.messageIds) : e \in Range(retryQueue)}

\* the ledger entries a retry may take now
Eligible ==
  {r.message_id : r \in {q \in AnalysisFailures :
                           q.next_retry <= now /\ q.attempts < RETRY_CUTOFF}}

\* C23: the retry pass pulls at most 50 ledger entries, each with next-retry
\* not after now and fewer than 3 attempts, and it is over before the
\* first-time pass selects or classifies a message.
C23_RetryPassFirst ==
  /\ Cardinality(Pulled) <= RETRY_PULL_LIMIT
  /\ Pulled \subseteq Eligible
  /\ (pc = "first" \/ firstQueue # <<>> \/ lastCall.pass = "first") => retryQueue = <<>>
  /\ lastCall.pass = "retry" => (pc = "retry" /\ firstQueue = <<>>)

\* C23 witness: 51 ledger entries are due, the retry pass has pulled 50 of
\* them and has not started the first-time pass.
C23_Witness ==
  /\ pc = "retry"
  /\ Cardinality(Eligible) = RETRY_PULL_LIMIT + 1
  /\ Cardinality(Pulled) = RETRY_PULL_LIMIT
  /\ firstQueue = <<>>

\* C24: in one run, the number of conversations sent to the classifier is at
\* most the limit the process was started with.
C24_CallsWithinLimit == runLog.calls <= maxConversations

-----------------------------------------------------------------------------
\* The classification call: analyzeMessagesWithRetry

\* error?.status of a failed call; NoNumber: an error without status (no
\* content in the response, JSON.parse failed)
RetriedStatuses == {THROTTLED, 500, 502, 503}
ClassifyStatuses == RetriedStatuses \cup {400, NoNumber}

\* what JSON.parse returns: an object with or without a "messages" list
ParsedAnswers == {"messages", "other"}

\* a faulty variant: one backoff for both kinds of error
ClassifyBackoffOfServer(status, n) == Pow2(n - 1) * BACKOFF_BASE_MS

\* Math.pow(2, attempt) * 1000 after a 429, Math.pow(2, attempt - 1) * 1000
\* after a 5xx
ClassifyBackoff(status, n) ==
  IF status = THROTTLED THEN Pow2(n) * BACKOFF_BASE_MS
  ELSE Pow2(n - 1) * BACKOFF_BASE_MS

\* the attempt succeeds: the parsed content is returned
CreateSucceeds ==
  /\ fwPc = "create"
  /\ \E parsed \in ParsedAnswers :
       fwResult' = [kind |-> "data", status |-> NoNumber, data |-> <<parsed>>]
  /\ fwPc' = "returned"
  /\ UNCHANGED <<fwFlow, attempt, waits>>
  /\ UNCHANGED <<analysisVars, syncVars, pageVars, runVars, reconVars, backfillVars>>
  /\ UNCHANGED <<configVars, historyVars>>
  /\ UNCHANGED overlapVars
  /\ UNCHANGED raceVars
  /\ UNCHANGED limiterVars

\* the attempt fails: after a 429 or a 5xx the function sleeps and goes to the
\* next attempt, and throws the last error when there is none left; any other
\* error is thrown at once
CreateFails ==
  /\ fwPc = "create"
  /\ \E status \in ClassifyStatuses :
       LET retried == status = THROTTLED \/ (status # NoNumber /\ status >= 500)
       IN  /\ fwResult' = [kind |-> "error", status |-> status, data |-> <<>>]
           /\ waits' = IF retried
                       THEN Append(waits, [status |-> status,
                                           ms |-> ClassifyBackoff(status, attempt)])
                       ELSE waits
           /\ IF retried /\ attempt < MAX_RETRIES
              THEN attempt' = attempt + 1 /\ UNCHANGED fwPc
              ELSE fwPc' = "threw" /\ UNCHANGED attempt
  /\ UNCHANGED fwFlow
  /\ UNCHANGED <<analysisVars, syncVars, pageVars, runVars, reconVars, backfillVars>>
  /\ UNCHANGED <<configVars, historyVars>>
  /\ UNCHANGED overlapVars
  /\ UNCHANGED raceVars
  /\ UNCHANGED limiterVars

InitClassify ==
  /\ Message = {}
  /\ MessageAnalysis = {}
  /\ AnalysisFailures = {}
  /\ viewFiltersShort = FALSE
  /\ pc = "idle"
  /\ retryQueue = <<>>
  /\ firstQueue = <<>>
  /\ processed = 0
  /\ now = 0
  /\ runs = 0
  /\ handInserts = 0
  /\ lastCall = NoCall
  /\ SyncIdle
  /\ PageIdle
  /\ fwFlow = "classification"
  /\ fwPc = "create"
  /\ attempt = 1
  /\ waits = <<>>
  /\ fwResult = NoResult
  /\ RunIdle
  /\ ReconIdle
  /\ BackfillIdle
  /\ ConfigDefault
  /\ HistoryIdle
  /\ OverlapIdle
  /\ RaceIdle
  /\ LimiterIdle

NextClassify ==
  \/ CreateSucceeds
  \/ CreateFails

SpecClassify == InitClassify /\ [][NextClassify]_vars

\* the backoffs of the contract, in ms, after attempts 1, 2 and 3
RateLimitWaits == <<2000, 4000, 8000>>
ServerErrorWaits == <<1000, 2000, 4000>>

\* C25: a classification call is attempted at most 3 times; after a 429 the
\* function waits 2s, 4s, 8s and after a 5xx 1s, 2s, 4s, by attempt number;
\* any other error is thrown at once, without a wait; the error of the third
\* failed attempt is the one thrown.
C25_ClassifyRetryPolicy ==
  fwFlow = "classification" =>
    /\ attempt \in 1..MAX_RETRIES
    /\ \A i \in DOMAIN waits :
         \/ waits[i].status = THROTTLED /\ waits[i].ms = RateLimitWaits[i]
         \/ waits[i].status \in 500..599 /\ waits[i].ms = ServerErrorWaits[i]
    /\ fwPc \in {"create", "returned"} => Len(waits) = attempt - 1
    /\ fwPc = "threw" =>
         \/ /\ fwResult.status \notin {THROTTLED} \cup 500..599
            /\ Len(waits) = attempt - 1
         \/ /\ attempt = MAX_RETRIES
            /\ Len(waits) = MAX_RETRIES
            /\ fwResult.status = waits[MAX_RETRIES].status

\* C25 witness: a 429, a 500 and a 429 were answered; the function waited
\* 2s, 2s and 8s and threw the last 429.
C25_Witness ==
  /\ fwFlow = "classification"
  /\ fwPc = "threw"
  /\ waits = <<[status |-> THROTTLED, ms |-> 2000], [status |-> 500, ms |-> 2000],
               [status |-> THROTTLED, ms |-> 8000]>>
  /\ fwResult.status = THROTTLED

-----------------------------------------------------------------------------
\* Claims about the error type of the ledger

\* the error type of the contract for the failure of the last call
ContractErrorType ==
  IF lastCall.cause = "throw" /\ lastCall.error.status = 429 THEN "rate_limit"
  ELSE IF lastCall.cause = "throw" /\ lastCall.error.status \in 500..599 THEN "api_error"
  ELSE IF lastCall.cause = "invalid" \/ lastCall.error.name = "SyntaxError" THEN "parse_error"
  ELSE "unknown_error"

\* C26: the ledger rows of a failed batch carry the error type rate-limit for
\* a 429, server-error for a 5xx, parse-error for a malformed or unparseable
\* answer, a response without messages list included, and unknown otherwise.
C26_ErrorTypeOfFailure ==
  lastCall.failed =>
    \A id \in Range(lastCall.batch) :
       \A r \in LedgerRows(AnalysisFailures, id) : r.error_type = ContractErrorType

-----------------------------------------------------------------------------
\* Claims about the confidence

\* C27: every stored MessageAnalysis row has a confidence in [0,1], and a
\* confidence the classifier returned outside of it, or did not return, is
\* replaced by a value of the range: it never makes the rows of a call fail.
C27_ConfidenceClamped ==
  /\ \A r \in MessageAnalysis : ConfidenceCheck(r)
  /\ lastCall.cause # "check"

-----------------------------------------------------------------------------
\* Claims about the times of a conversation

\* C28: after every write of the sync or of the reconciliation, every stored
\* conversation has an update time that is not before its creation time,
\* whatever times the remote record carried.
C28_UpdatedNotBeforeCreated ==
  \A r \in Conversation : r.updated_time.t >= r.created_time.t

-----------------------------------------------------------------------------
\* Claims about the normalisation of the content

\* the text of the contract: of every part the first of nested text content,
\* flat content, flat text and raw string, trimmed; the empty ones dropped and
\* the others joined by one space; the empty string when there is none
Normalized(parts) ==
  IF parts.kind = "absent" THEN <<>> ELSE JoinTexts(parts.items)

\* C29: the content upsertMessage stores for a message is the normalised text
\* of its parts: the texts of the parts by the priority of the contract joined
\* with one space ("a b" for the example), and the empty string when no text
\* can be extracted.
C29_NormalizedContent ==
  [][(nUpserts' = nUpserts + 1 /\ lastUpsert'.entity = "Message" /\ ~lastUpsert'.threw) =>
       LET msg == lastUpsert'.input[1]
           key == MessageRow(msg, lastUpsert'.input[2], clock).id
       IN  \A r \in Message' :
              r.id = key =>
                r.message_parts = Normalized(OrElseParts(msg.message_parts, msg.parts))]_vars

\* the example of the contract is stored as "a b"
ExampleIsJoined ==
  \A r \in Message : r.id = RemoteKey("x5") => r.message_parts = <<"a", " ", "b">>

-----------------------------------------------------------------------------
\* Overlapping runs: the catch block of analyzeConversation, await by await

\* select('attempts').eq('message_id', msg.id).single(): the attempts read,
\* NoNumber when there is no row
SelectAttempts(table, id) ==
  LET found == {r \in table : r.message_id = id}
  IN  IF Cardinality(found) = 1 THEN (CHOOSE r \in found : TRUE).attempts ELSE NoNumber

\* attempts: existing.attempts + 1
NextAttempts(existing) == existing + 1

\* the update of the row read, or the insert of a first row; the insert of a
\* second row for a message_id is refused by the primary key and the refusal
\* is not looked at
WriteFailure(table, conversationId, id, existing, errorType, t, nextRetry) ==
  IF existing # NoNumber
  THEN {IF r.message_id = id
        THEN [r EXCEPT !.attempts = NextAttempts(existing), !.last_attempt = t,
                       !.next_retry = nextRetry, !.error_type = errorType]
        ELSE r : r \in table}
  ELSE IF \E r \in table : r.message_id = id THEN table
  ELSE table \cup
       {[message_id |-> id, conversation_id |-> conversationId,
         error_type |-> errorType, attempts |-> 1, last_attempt |-> t,
         next_retry |-> nextRetry]}

OverlapFrame ==
  /\ UNCHANGED <<Message, MessageAnalysis, viewFiltersShort, pc, retryQueue, firstQueue,
                 processed, now, runs, handInserts, lastCall>>
  /\ UNCHANGED <<syncVars, pageVars, fetchVars, runVars, reconVars, backfillVars,
                 configVars, historyVars, raceVars, limiterVars>>

\* the catch block of run p is entered for a batch
EnterCatch(rec, conversationId, messages, e) ==
  [rec EXCEPT !.phase = "select", !.conv = conversationId,
              !.queue = [i \in DOMAIN messages |-> messages[i].id],
              !.errorType = ErrorType(e), !.nextRetry = now + RETRY_DELAY_HOURS,
              !.existing = NoNumber]

\* run p starts: retryFailedMessages pulls the ledger rows due for a retry
StartOverlapRun(p) ==
  /\ recorders[p].pc = "start"
  /\ recorders' = [recorders EXCEPT ![p].pc = "retry", ![p].retryQueue = RetryConvMap]
  /\ UNCHANGED AnalysisFailures
  /\ OverlapFrame

\* the classifier call of run p for the next retried conversation throws
RetryFails(p) ==
  LET rec == recorders[p]
  IN /\ rec.pc = "retry"
     /\ rec.phase = "idle"
     /\ rec.retryQueue # <<>>
     /\ LET entry == Head(rec.retryQueue)
            rows == {m \in Message : m.id \in Range(entry.messageIds)}
            popped == [rec EXCEPT !.retryQueue = Tail(rec.retryQueue)]
        IN IF rows = {}
           THEN recorders' = [recorders EXCEPT ![p] = popped]
           ELSE \E messages \in RowOrders(rows), e \in ClassifierErrors :
                  recorders' = [recorders EXCEPT
                                  ![p] = EnterCatch(popped, entry.conv, messages, e)]
     /\ UNCHANGED AnalysisFailures
     /\ OverlapFrame

\* the retry pass of run p is over: fetchMessagesForAnalysis selects
BeginFirstOverlap(p) ==
  LET rec == recorders[p]
      conversationMap == FetchMessagesForAnalysis(FALSE)
  IN /\ rec.pc = "retry"
     /\ rec.phase = "idle"
     /\ rec.retryQueue = <<>>
     /\ recorders' = [recorders EXCEPT
          ![p].pc = IF Len(conversationMap) = 0 THEN "done" ELSE "first",
          ![p].firstQueue = conversationMap]
     /\ UNCHANGED AnalysisFailures
     /\ OverlapFrame

\* the classifier call of run p for the next selected conversation throws
FirstFails(p) ==
  LET rec == recorders[p]
  IN /\ rec.pc = "first"
     /\ rec.phase = "idle"
     /\ rec.firstQueue # <<>>
     /\ LET entry == Head(rec.firstQueue)
            popped == [rec EXCEPT !.firstQueue = Tail(rec.firstQueue),
                                  !.pc = IF Tail(rec.firstQueue) = <<>> THEN "done"
                                         ELSE "first"]
        IN \E e \in ClassifierErrors :
             recorders' = [recorders EXCEPT
                             ![p] = EnterCatch(popped, entry.conv, entry.messages, e)]
     /\ UNCHANGED AnalysisFailures
     /\ OverlapFrame

\* run p reads the attempts of the next message of its batch
SelectExisting(p) ==
  /\ recorders[p].phase = "select"
  /\ recorders' = [recorders EXCEPT
       ![p].phase = "write",
       ![p].existing = SelectAttempts(AnalysisFailures, Head(recorders[p].queue))]
  /\ UNCHANGED AnalysisFailures
  /\ OverlapFrame

\* run p writes the ledger row of that message and goes on with the batch
UpdateOrInsert(p) ==
  LET rec == recorders[p]
  IN /\ rec.phase = "write"
     /\ AnalysisFailures' =
          WriteFailure(AnalysisFailures, rec.conv, Head(rec.queue), rec.existing,
                       rec.errorType, now, rec.nextRetry)
     /\ recorders' = [recorders EXCEPT ![p] =
          IF Tail(rec.queue) = <<>>
          THEN [rec EXCEPT !.phase = "idle", !.conv = None, !.queue = <<>>,
                           !.errorType = None, !.nextRetry = NoNumber,
                           !.existing = NoNumber]
          ELSE [rec EXCEPT !.phase = "select", !.queue = Tail(rec.queue),
                           !.existing = NoNumber]]
     /\ OverlapFrame

StartOverlapRuns == \E p \in Processes : StartOverlapRun(p)
RetryFailures == \E p \in Processes : RetryFails(p)
BeginFirstOverlaps == \E p \in Processes : BeginFirstOverlap(p)
FirstFailures == \E p \in Processes : FirstFails(p)
SelectExistings == \E p \in Processes : SelectExisting(p)
UpdateOrInserts == \E p \in Processes : UpdateOrInsert(p)

\* the store when two runs start one hour after a run that failed on every
\* conversation: the classifier is out of order, all its calls throw
InitOverlap ==
  /\ Message = InitialMessages \cup ArrivingMessages
  /\ MessageAnalysis = {}
  /\ AnalysisFailures =
       {[message_id |-> m.id, conversation_id |-> m.conversationid,
         error_type |-> "unknown_error", attempts |-> 1, last_attempt |-> 0,
         next_retry |-> RETRY_DELAY_HOURS] : m \in InitialMessages \cup ArrivingMessages}
  /\ viewFiltersShort = FALSE
  /\ pc = "idle"
  /\ retryQueue = <<>>
  /\ firstQueue = <<>>
  /\ processed = 0
  /\ now = RETRY_DELAY_HOURS
  /\ runs = 0
  /\ handInserts = 0
  /\ lastCall = NoCall
  /\ SyncIdle
  /\ PageIdle
  /\ FetchIdle
  /\ RunIdle
  /\ ReconIdle
  /\ BackfillIdle
  /\ ConfigDefault
  /\ HistoryIdle
  /\ OverlapIdle
  /\ RaceIdle
  /\ LimiterIdle

NextOverlap ==
  \/ StartOverlapRuns
  \/ RetryFailures
  \/ BeginFirstOverlaps
  \/ FirstFailures
  \/ SelectExistings
  \/ UpdateOrInserts

SpecOverlap == InitOverlap /\ [][NextOverlap]_vars

\* C30: the attempts of a ledger row never go down, in whatever order the
\* reads and the writes of two overlapping runs are interleaved.
C30_AttemptsNeverDecrease ==
  [][\A r \in AnalysisFailures : \A q \in AnalysisFailures' :
       q.message_id = r.message_id => q.attempts >= r.attempts]_vars

-----------------------------------------------------------------------------
\* A sync run and a reconciliation run on the same conversation, await by await

\* what fetchConversation answers while the remote holds rc
RemoteDetail(rc) ==
  [Detail("c1", RemoteTime("iso", 0), RemoteTime("iso", rc.updated), "agent")
     EXCEPT !.status = rc.status]

RaceFrame ==
  /\ UNCHANGED <<analysisVars, User, lastUpsert, nUpserts, pageVars, fetchVars, runVars,
                 reconVars, backfillVars, configVars, historyVars, overlapVars,
                 limiterVars>>

\* an agent or the customer acts on the conversation: the remote stamps it
RemoteUpdates ==
  /\ remoteConvo.updated < clock
  /\ \E status \in {"new", "resolved"} :
       remoteConvo' = [status |-> status, updated |-> clock]
  /\ UNCHANGED <<Conversation, clock, inFlight>>
  /\ RaceFrame
  /\ UNCHANGED limiterVars

\* time passes
RaceClockAdvances ==
  /\ clock < MaxClock
  /\ clock' = clock + 1
  /\ UNCHANGED <<Conversation, remoteConvo, inFlight>>
  /\ RaceFrame
  /\ UNCHANGED limiterVars

\* fetchAndStore: const convoDetail = await fetchConversation(uc.id), in a run
\* whose window ends now
SyncFetchesDetail ==
  /\ inFlight["sync"].stage = "idle"
  /\ inFlight' = [inFlight EXCEPT !["sync"] =
       [stage |-> "fetched", dbConvo |-> <<>>, detail |-> <<RemoteDetail(remoteConvo)>>,
        start |-> clock - LOOKBACK_HOURS, end |-> clock]]
  /\ UNCHANGED <<Conversation, clock, remoteConvo>>
  /\ RaceFrame
  /\ UNCHANGED limiterVars

\* fetchAndStore: the window test and await upsertConversation(...)
SyncUpsertsDetail ==
  LET held == inFlight["sync"]
      detail == held.detail[1]
      uc == ListedConversation("c1", Absent)
      w == [start |-> held.start, end |-> held.end]
  IN /\ held.stage = "fetched"
     /\ \E dbError \in BOOLEAN :
          Conversation' =
            IF SkipsOutOfWindow(detail, uc, w) \/ dbError THEN Conversation
            ELSE Upsert(Conversation,
                        ConversationRow([detail EXCEPT !.userId = "u1"],
                                        ConvoId(detail, uc), clock))
     /\ inFlight' = [inFlight EXCEPT !["sync"] = NoFlight]
     /\ UNCHANGED <<clock, remoteConvo>>
     /\ RaceFrame
  /\ UNCHANGED limiterVars

\* refetchUnresolvedConversations: the select of the unresolved conversations
ReconSelects ==
  /\ inFlight["reconciliation"].stage = "idle"
  /\ UnresolvedConvos(Conversation, clock) # <<>>
  /\ inFlight' = [inFlight EXCEPT !["reconciliation"] =
       [NoFlight EXCEPT !.stage = "selected",
                        !.dbConvo = <<Head(UnresolvedConvos(Conversation, clock))>>]]
  /\ UNCHANGED <<Conversation, clock, remoteConvo>>
  /\ RaceFrame
  /\ UNCHANGED limiterVars

\* const freshConvo = await fetchConversation(dbConvo.id)
ReconFetchesDetail ==
  /\ inFlight["reconciliation"].stage = "selected"
  /\ inFlight' = [inFlight EXCEPT !["reconciliation"].stage = "fetched",
                                  !["reconciliation"].detail = <<RemoteDetail(remoteConvo)>>]
  /\ UNCHANGED <<Conversation, clock, remoteConvo>>
  /\ RaceFrame
  /\ UNCHANGED limiterVars

\* if (statusChanged || timeChanged) await upsertConversation(...)
ReconUpsertsDetail ==
  LET held == inFlight["reconciliation"]
      fresh == held.detail[1]
      dbConvo == held.dbConvo[1]
  IN /\ held.stage = "fetched"
     /\ \E dbError \in BOOLEAN :
          Conversation' =
            IF (StatusChanged(fresh, dbConvo) \/ TimeChanged(fresh, dbConvo)) /\ ~dbError
            THEN Upsert(Conversation,
                        RefetchedRow([fresh EXCEPT !.userId = dbConvo.userid],
                                     dbConvo.id, clock))
            ELSE Conversation
     /\ inFlight' = [inFlight EXCEPT !["reconciliation"] = NoFlight]
     /\ UNCHANGED <<clock, remoteConvo>>
     /\ RaceFrame
  /\ UNCHANGED limiterVars

\* conversation c1 as an earlier sync run stored it; both scripts are started
InitRace ==
  /\ Message = {}
  /\ MessageAnalysis = {}
  /\ AnalysisFailures = {}
  /\ viewFiltersShort = FALSE
  /\ pc = "idle"
  /\ retryQueue = <<>>
  /\ firstQueue = <<>>
  /\ processed = 0
  /\ now = 0
  /\ runs = 0
  /\ handInserts = 0
  /\ lastCall = NoCall
  /\ User = {}
  /\ Conversation = {StoredConversation("c1", FirstRemote.status, 0, FirstRemote.updated)}
  /\ clock = 0
  /\ lastUpsert = NoUpsert
  /\ nUpserts = 0
  /\ PageIdle
  /\ FetchIdle
  /\ RunIdle
  /\ ReconIdle
  /\ BackfillIdle
  /\ ConfigDefault
  /\ HistoryIdle
  /\ OverlapIdle
  /\ RaceIdle
  /\ LimiterIdle

NextRace ==
  \/ RemoteUpdates
  \/ RaceClockAdvances
  \/ SyncFetchesDetail
  \/ SyncUpsertsDetail
  \/ ReconSelects
  \/ ReconFetchesDetail
  \/ ReconUpsertsDetail

SpecRace == InitRace /\ [][NextRace]_vars

\* C31: whatever the interleaving of a sync run and a reconciliation run on a
\* conversation, its stored update time never moves backwards and a stored
\* status "resolved" is never replaced by an unresolved status that is not newer.
C31_OnlyNewerStateIsStored ==
  [][\A r \in Conversation : \A q \in Conversation' :
       q.id = r.id =>
         /\ q.updated_time.t >= r.updated_time.t
         /\ (r.status = "resolved" /\ q.status # "resolved" =>
               q.updated_time.t > r.updated_time.t)]_vars

-----------------------------------------------------------------------------
\* The classification engine on a store with more end-user messages than the
\* selection query reads

\* a recent message: a short acknowledgement of a chatty conversation, or,
\* for the newest one when asked, a long message of conversation c1
WindowMessage(i, long) ==
  [id |-> "w" \o ToString(i),
   conversationid |-> IF long THEN "c1" ELSE "c2",
   actor_type |-> "user",
   message_parts |-> IF long THEN TextBike ELSE TextOk,
   created_time |-> i]

\* an end-user message older than every recent one, with a text to classify
OldMessage ==
  [id |-> "old", conversationid |-> "c3", actor_type |-> "user",
   message_parts |-> TextBattery, created_time |-> 0]

\* FETCH_LIMIT recent messages and the old one
WindowStore(newestIsLong) ==
  {OldMessage} \cup
  {WindowMessage(i, newestIsLong /\ i = FETCH_LIMIT) : i \in 1..FETCH_LIMIT}

InitWindow ==
  /\ Message \in {WindowStore(newestIsLong) : newestIsLong \in BOOLEAN}
  /\ MessageAnalysis = {}
  /\ AnalysisFailures = {}
  /\ viewFiltersShort \in BOOLEAN
  /\ pc = "idle"
  /\ retryQueue = <<>>
  /\ firstQueue = <<>>
  /\ processed = 0
  /\ now = 0
  /\ runs = 0
  /\ handInserts = 0
  /\ lastCall = NoCall
  /\ SyncIdle
  /\ PageIdle
  /\ FetchIdle
  /\ RunIdle
  /\ ReconIdle
  /\ BackfillIdle
  /\ ConfigDefault
  /\ HistoryIdle
  /\ OverlapIdle
  /\ RaceIdle
  /\ LimiterIdle

NextWindow ==
  \/ StartRun
  \/ RetryConversation
  \/ BeginFirstPass
  \/ AnalyzeNextConversation
  \/ FinishRun
  \/ Tick

SpecWindow == InitWindow /\ [][NextWindow]_vars

\* an end-user message with a text that is not short
EligibleMessage(m) ==
  /\ m.actor_type = "user"
  /\ m.message_parts # <<>>
  /\ ~IsShortMessage(m.message_parts)

\* a run that called the classifier for nothing: no retry, nothing selected
IdleRun == pc = "retry" /\ pc' = "idle" /\ runLog.calls = 0

\* C32: with a classifier that works and no new message, the runs come to
\* classify every eligible message: a run finds nothing to do only when every
\* eligible message has its MessageAnalysis row or waits in the ledger for a
\* retry.
C32_NothingLeftBehind ==
  [][IdleRun =>
       \A m \in Message :
          EligibleMessage(m) =>
            \/ \E r \in MessageAnalysis : r.message_id = m.id
            \/ \E af \in AnalysisFailures :
                 af.message_id = m.id /\ af.attempts < RETRY_CUTOFF]_vars

-----------------------------------------------------------------------------
\* The rate limiter of the classifier calls (class RateLimiter)
\*
\* Time is counted in refill periods of one token (60 s / maxTokens), so that
\* refillRate is one token per unit; the calls of the model fall on whole units.

\* the requests per minute the limiters of the model are built with
Capacities == {1, 2, 3}

\* refill(): Math.min(maxTokens, tokens + timePassed * refillRate)
Refill(tokens, lastRefill, t, maxTokens) == Min(maxTokens, tokens + (t - lastRefill))

\* ((1 - tokens) / refillRate) * 1000, in units
WaitTime(tokens) == 1 - tokens

RECURSIVE GrantsIn(_, _)
\* the calls that returned in the instants a..b
GrantsIn(a, b) == IF a > b THEN 0 ELSE rlGrants[a] + GrantsIn(a + 1, b)

LimiterFrame ==
  /\ UNCHANGED <<analysisVars, syncVars, pageVars, fetchVars, runVars, reconVars,
                 backfillVars, configVars, historyVars, overlapVars, raceVars>>

\* await rateLimiter.waitForToken(), up to the return or to the setTimeout;
\* the caller awaits it, so no second call is made while one is suspended
WaitForToken ==
  /\ rlWake = NoNumber
  /\ GrantsIn(0, MaxTicks) < rlCapacity + MaxLaterCalls
  /\ LET refilled == Refill(rlTokens, rlLastRefill, rlNow, rlCapacity)
     IN /\ rlLastRefill' = rlNow
        /\ IF refilled >= 1
           THEN /\ rlTokens' = refilled - 1
                /\ rlWake' = NoNumber
                /\ rlGrants' = [rlGrants EXCEPT ![rlNow] = @ + 1]
           ELSE /\ rlTokens' = refilled
                /\ rlWake' = rlNow + WaitTime(refilled)
                /\ UNCHANGED rlGrants
  /\ UNCHANGED <<rlCapacity, rlNow>>
  /\ LimiterFrame

\* the timer of the suspended call fires: this.tokens = 0, and the call returns
TokenTimerFires ==
  /\ rlWake # NoNumber
  /\ rlWake <= rlNow
  /\ rlTokens' = 0
  /\ rlWake' = NoNumber
  /\ rlGrants' = [rlGrants EXCEPT ![rlNow] = @ + 1]
  /\ UNCHANGED <<rlCapacity, rlLastRefill, rlNow>>
  /\ LimiterFrame

\* time passes
LimiterTick ==
  /\ rlNow < MaxTicks
  /\ rlNow' = rlNow + 1
  /\ UNCHANGED <<rlCapacity, rlTokens, rlLastRefill, rlWake, rlGrants>>
  /\ LimiterFrame

\* new RateLimiter(maxRequestsPerMinute)
InitLimiter ==
  /\ Message = {}
  /\ MessageAnalysis = {}
  /\ AnalysisFailures = {}
  /\ viewFiltersShort = FALSE
  /\ pc = "idle"
  /\ retryQueue = <<>>
  /\ firstQueue = <<>>
  /\ processed = 0
  /\ now = 0
  /\ runs = 0
  /\ handInserts = 0
  /\ lastCall = NoCall
  /\ SyncIdle
  /\ PageIdle
  /\ FetchIdle
  /\ RunIdle
  /\ ReconIdle
  /\ BackfillIdle
  /\ ConfigDefault
  /\ HistoryIdle
  /\ OverlapIdle
  /\ RaceIdle
  /\ rlCapacity \in Capacities
  /\ rlTokens = rlCapacity
  /\ rlLastRefill = 0
  /\ rlNow = 0
  /\ rlWake = NoNumber
  /\ rlGrants = [t \in 0..MaxTicks |-> 0]

NextLimiter ==
  \/ WaitForToken
  \/ TokenTimerFires
  \/ LimiterTick

SpecLimiter == InitLimiter /\ [][NextLimiter]_vars

\* C33: the tokens of the limiter stay within 0..capacity, and in no interval
\* do more calls return than the capacity plus what the interval refills (one
\* token per unit of time), a call that had to wait included.
C33_GrantsWithinRefill ==
  /\ rlTokens >= 0 /\ rlTokens <= rlCapacity
  /\ \A a \in 0..rlNow : \A b \in a..rlNow :
       GrantsIn(a, b) <= rlCapacity + (b - a)

-----------------------------------------------------------------------------
\* Claims about the order of the messages of a call

\* the creation time of the stored message with an id
CreatedTimeOf(id) == (CHOOSE m \in Message : m.id = id).created_time

\* C34: in every classifier call, of the first-time pass and of the retry pass,
\* the messages sent are in ascending order of creation time.
C34_SentInCreationOrder ==
  lastCall.pass # "none" =>
    \A i, j \in DOMAIN lastCall.sent :
       i < j => CreatedTimeOf(lastCall.sent[i]) <= CreatedTimeOf(lastCall.sent[j])

\* the same for the calls of the first-time pass alone
FirstPassInCreationOrder ==
  lastCall.pass = "first" =>
    \A i, j \in DOMAIN lastCall.sent :
       i < j => CreatedTimeOf(lastCall.sent[i]) <= CreatedTimeOf(lastCall.sent[j])

-----------------------------------------------------------------------------
\* Claims about the filters of the backfill and of the sync

\* C35: the backfill persists a remote message exactly when the filter of the
\* sync keeps it: no message whose actor role is system, in any letter case,
\* is ever written by the backfill.
C35_BackfillFiltersLikeSync ==
  [][\A r \in Message' \ Message :
        bfPc = "loop" => IsNotSystem(r)]_vars

-----------------------------------------------------------------------------
\* Claims about the counts of a reconciliation run

\* C36: a reconciliation run visits every selected conversation once; each
\* visit adds exactly one to checked + errors, so that at completion
\* checked + errors is the number of selected conversations, and
\* resolved <= updated <= checked.
C36_CheckedPlusErrors ==
  [][rcPc = "loop" =>
       /\ Len(rcQueue') = Len(rcQueue) - 1
       /\ rcSummary'.checked + rcSummary'.errors =
            rcSummary.checked + rcSummary.errors + 1
       /\ rcSummary'.resolved <= rcSummary'.updated
       /\ rcSummary'.updated <= rcSummary'.checked]_vars

\* the part of C36 that does not count the visits
ResolvedUpdatedChecked ==
  /\ rcSummary.resolved <= rcSummary.updated
  /\ rcSummary.updated <= rcSummary.checked

-----------------------------------------------------------------------------
\* Claims about the loop of the backfill over the stored conversations

\* the step attempts the next conversation of the current batch
AttemptsConversation ==
  /\ bfPc = "loop"
  /\ bfQueue # <<>>
  /\ bfQueue' = Tail(bfQueue)

\* conversations attempted so far in the run
Attempted(stats) == stats.conversationsProcessed + stats.conversationsFailed

\* C37: a backfill run attempts the stored conversations one by one, oldest
\* first, each once; a processed and a failed conversation alike add one to
\* conversationsProcessed + conversationsFailed and the run goes on, and at
\* completion that sum is totalConversations, the number of stored
\* conversations.
C37_EveryConversationOnce ==
  [][/\ AttemptsConversation =>
          /\ Cardinality({q \in Conversation :
                            q.created_time.t < Head(bfQueue).created_time.t})
               = Attempted(bfStats)
          /\ Attempted(bfStats') = Attempted(bfStats) + 1
          /\ bfPc' = "loop"
     /\ bfPc' = "exit0" =>
          /\ Attempted(bfStats') = bfStats'.totalConversations
          /\ bfStats'.totalConversations = Cardinality(Conversation')]_vars

\* a run in batches of one has completed: its first conversation failed, its
\* second was processed
C37_Witness ==
  /\ bfPc = "exit0"
  /\ bfBatchSize = 1
  /\ bfStats.totalConversations = 2
  /\ bfStats.conversationsFailed = 1
  /\ lastBackfill.outcome = "processed"

\* C38: the loop over the batches ends, whatever the batch size (0 included)
\* and the number of stored conversations: every iteration moves the index i
\* forward.
C38_BatchLoopAdvances ==
  [][bfBatches' = bfBatches + 1 => bfI' > bfI]_vars

\* the loop makes at most one iteration per selected conversation
BatchesWithinConversations ==
  bfBatches <= Len(bfConversations)

-----------------------------------------------------------------------------
\* Claims about the result of paginate

\* the items of the page the server sends for page number p
PageNumber(p) == PageItems(Response(server, p, pageSize))

\* the items of the pages from..to, one page after the other
RECURSIVE PagesInOrder(_, _)
PagesInOrder(from, to) ==
  IF from > to THEN <<>>
  ELSE IF from = to THEN PageNumber(from)
  ELSE LET mid == (from + to) \div 2
       IN  PagesInOrder(from, mid) \o PagesInOrder(mid + 1, to)

\* paginate stopped on a full page whose first id an earlier page had
StoppedOnRepeat ==
  /\ pgPc = "done"
  /\ fetches >= 2
  /\ Len(PageNumber(fetches)) = pageSize
  /\ FirstId(PageNumber(fetches)) # <<>>
  /\ \E q \in 1..(fetches - 1) :
        /\ PageNumber(q) # <<>>
        /\ FirstId(PageNumber(q)) = FirstId(PageNumber(fetches))

\* C39: paginate returns the items of every page it fetched, in the order of
\* the fetches, the page it stopped on included; when it stops on a repeated
\* first id the items of the repeated page end the result, a second time.
C39_AllFetchedPages ==
  pgPc = "done" =>
    /\ items = PagesInOrder(1, fetches)
    /\ StoppedOnRepeat =>
         /\ Len(items) >= 2 * pageSize
         /\ SubSeq(items, Len(items) - pageSize + 1, Len(items)) = PageNumber(fetches)

\* the server sent its one full page twice and paginate returned it twice
C39_Witness ==
  /\ StoppedOnRepeat
  /\ SamePageForEver
  /\ items = PageNumber(1) \o PageNumber(1)

-----------------------------------------------------------------------------
\* Claims about the messages beyond the cap of a failed call

CreatedForUnsentMessage ==
  /\ lastCall.failed
  /\ Len(lastCall.batch) > MAX_MESSAGES_PER_BATCH
  /\ \E id \in BeyondCap(lastCall) :
        /\ id \notin lastCall.hadFailure
        /\ \E r \in AnalysisFailures : r.message_id = id /\ r.attempts = 1

====
